---- MODULE Spec2Model ----
(***************************************************************************)
(* gorun: the run execution engine (tool.RunTool), the persistence         *)
(* queries on the runs table, the service orchestration layer, the REST    *)
(* handlers for runs, and the discovery of tool specifications             *)
(* (toolImage.ReadAllTools, LoadToolSpec) with the cache it fills.         *)
(***************************************************************************)
EXTENDS Integers, Sequences, FiniteSets, TLC

VARIABLES
    runs,      \* the runs table: run id -> row
    nextId,    \* the id the next inserted row gets
    applied,   \* history: run id -> the transitions applied to the row, and the calls
               \* ("DeleteRun", "RemoveAll") the delete handler has made for it
    execs,     \* the RunTool goroutines: slot -> frame of one execution
    reqs,      \* the requests in flight: slot -> request between two of its steps
    cache,     \* the tool specification cache
    crashed,   \* TRUE once log.Fatal has ended the process
    fs,        \* the directories under the mount base: the set of their paths
    passes,    \* the calls of ReadAllTools: slot -> frame
    probes,    \* the probe goroutines: <<pass, image>> -> frame
    loads,     \* the calls of LoadToolSpec: slot -> frame
    detected,  \* history: image -> number of times readToolSpec was run on it
    mcp        \* the MCP server: its configuration and the HTTP requests it has answered

discVars == <<passes, probes, loads, detected>>

vars == <<runs, nextId, applied, execs, reqs, cache, crashed, fs, passes, probes, loads,
          detected, mcp>>

----------------------------------------------------------------------------
(* Bounds of the model *)

MaxRuns == 1
MaxExecs == 1
MaxReqs == 1
MaxPasses == 2
MaxLoads == 1
MaxHttp == 2

----------------------------------------------------------------------------
(* Input domains *)

Users == {"alice", "bob", "root"}
Admins == {"root"}
NoUser == ""
Callers == Users \cup {NoUser}

Images == {"img1"}

\* c.ImageList: the images the runtime holds, one of them without a tag
Summary == {[RepoTags |-> <<"img1">>], [RepoTags |-> <<"img2", "img2:old">>],
            [RepoTags |-> <<>>]}
ToolNames == {"t1", "tX"}
ParamNames == {"p"}
MountChoices == {{}, {"/in", "/out"}}
ExitCodes == {0, 137}
StatusFilters == {"pending", "running", "finished", "errored", ""}

Null == "NULL"
Now == "now"

\* sql.NullString
NullString(str) == [String |-> str, Valid |-> TRUE]
NoString == [String |-> <<>>, Valid |-> FALSE]

\* An error is nil or the sequence of the pieces of its text.
Nil == <<>>
ErrUnauthorized == <<"user id is required">>
ErrNoRows == <<"sql: no rows in result set">>
ErrNotFoundTool(slug) == <<"not found", ": tool ">> \o slug
ErrValidation(slug) == <<"the provided payload is invalid for the tool ">> \o slug
DockerErr(op) == <<"docker: ", op, " failed">>
ErrCanceled == <<"context canceled">>

----------------------------------------------------------------------------
(* The users table and the ownership predicate of the queries *)

IsAdmin(u) == u \in Admins

MayAccessAll(r, u) == TRUE

MayAccess(r, u) == IsAdmin(u) \/ r.user_id = u

----------------------------------------------------------------------------
(* The runs table *)

RunDefaults ==
    [status |-> "pending", started_at |-> Null, finished_at |-> Null,
     has_errored |-> FALSE, error_message |-> NoString, gotap_metadata |-> NoString]

DBCreateRunStamped(id, name, image, mounts, user) ==
    [id |-> id, name |-> name, docker_image |-> image, mounts |-> mounts,
     created_at |-> Now, user_id |-> user,
     status |-> RunDefaults.status, started_at |-> Now,
     finished_at |-> RunDefaults.finished_at, has_errored |-> RunDefaults.has_errored,
     error_message |-> RunDefaults.error_message,
     gotap_metadata |-> RunDefaults.gotap_metadata]

DBCreateRun(id, name, image, mounts, user) ==
    [id |-> id, name |-> name, docker_image |-> image, mounts |-> mounts,
     created_at |-> Now, user_id |-> user,
     status |-> RunDefaults.status, started_at |-> RunDefaults.started_at,
     finished_at |-> RunDefaults.finished_at, has_errored |-> RunDefaults.has_errored,
     error_message |-> RunDefaults.error_message,
     gotap_metadata |-> RunDefaults.gotap_metadata]

\* A query result: the table after the statement and its error.
Result(rows, err) == [rows |-> rows, err |-> err]

HasRow(rs, id) == id \in DOMAIN rs

DBGetRun(rs, id, u) ==
    IF HasRow(rs, id) /\ MayAccess(rs[id], u)
    THEN [row |-> rs[id], err |-> Nil]
    ELSE [row |-> Null, err |-> ErrNoRows]

DBDeleteRun(rs, id, u) ==
    IF HasRow(rs, id) /\ MayAccess(rs[id], u)
    THEN Result([i \in DOMAIN rs \ {id} |-> rs[i]], Nil)
    ELSE Result(rs, Nil)

DBStartRun(rs, id, u) ==
    IF HasRow(rs, id) /\ MayAccess(rs[id], u)
    THEN Result([rs EXCEPT ![id].status = "running", ![id].started_at = Now], Nil)
    ELSE Result(rs, ErrNoRows)

DBFinishRunUnstamped(rs, id) ==
    IF HasRow(rs, id)
    THEN Result([rs EXCEPT ![id].status = "finished"], Nil)
    ELSE Result(rs, ErrNoRows)

DBFinishRunFlagged(rs, id) ==
    IF HasRow(rs, id)
    THEN Result([rs EXCEPT ![id].status = "finished", ![id].finished_at = Now,
                           ![id].has_errored = TRUE], Nil)
    ELSE Result(rs, ErrNoRows)

DBFinishRun(rs, id) ==
    IF HasRow(rs, id)
    THEN Result([rs EXCEPT ![id].status = "finished", ![id].finished_at = Now], Nil)
    ELSE Result(rs, ErrNoRows)

DBRunErrored(rs, id, msg) ==
    IF HasRow(rs, id)
    THEN Result([rs EXCEPT ![id].status = "errored", ![id].error_message = msg,
                           ![id].finished_at = Now, ![id].has_errored = TRUE], Nil)
    ELSE Result(rs, ErrNoRows)

DBSetRunGotapMetadata(rs, id, json) ==
    IF HasRow(rs, id)
    THEN Result([rs EXCEPT ![id].gotap_metadata = json], Nil)
    ELSE Result(rs, ErrNoRows)

Rows(rs) == {rs[i] : i \in DOMAIN rs}

DBGetAllRuns(rs, u) == {r \in Rows(rs) : MayAccess(r, u)}

DBGetIdleRuns(rs, u) == {r \in Rows(rs) : r.status = "pending" /\ MayAccess(r, u)}

DBGetRunning(rs, u) == {r \in Rows(rs) : r.status = "running" /\ MayAccess(r, u)}

DBGetFinishedRuns(rs, u) == {r \in Rows(rs) : r.status = "finished" /\ MayAccess(r, u)}

DBGetErroredRuns(rs, u) == {r \in Rows(rs) : r.status = "errored" /\ MayAccess(r, u)}

----------------------------------------------------------------------------
(* Tool specifications, the cache and input validation *)

\* fmt.Sprintf("%s::%s", image, name), as the sequence of its pieces
Slug(image, name) == <<image, "::", name>>

\* cff.Cff{}
NoCff == <<>>

\* The specification file embedded in an image: tool name -> tool spec.
ImageSpecFile(image) ==
    IF image = "img1"
    THEN [n \in {"t1", "t2"} |->
            [ID |-> <<>>, Name |-> n, Title |-> IF n = "t1" THEN "Echo" ELSE "Sum",
             Required |-> IF n = "t1" THEN {"p"} ELSE {}, Citation |-> NoCff]]
    ELSE [n \in {"t1"} |->
            [ID |-> <<>>, Name |-> n, Title |-> "Chop", Required |-> {"p"},
             Citation |-> NoCff]]

\* The citation file of an image, parsed
Cff(image) == <<"cff", image>>

EmptyCache == [images |-> <<>>, tools |-> <<>>, Initialised |-> FALSE]

CacheGetToolSpec(c, slug) ==
    IF slug \in DOMAIN c.tools
    THEN [spec |-> c.tools[slug], found |-> TRUE]
    ELSE [spec |-> Null, found |-> FALSE]

CacheGetImageSpec(c, image) ==
    IF image \in DOMAIN c.images
    THEN [spec |-> c.images[image], found |-> TRUE]
    ELSE [spec |-> Null, found |-> FALSE]

CacheSetImageSpec(c, image, spec) ==
    [c EXCEPT !.images = (image :> spec) @@ c.images]

CacheSetToolSpec(c, slug, spec) ==
    [c EXCEPT !.tools = (slug :> spec) @@ c.tools]

\* validate.ValidateInputs: the declared required parameters that the payload lacks
ValidateInputs(spec, payload) ==
    LET missing == spec.Required \ payload.Parameters
    IN  [hasErrors |-> missing # {}, errs |-> missing]

Payloads ==
    [ToolName : ToolNames, DockerImage : Images, Parameters : SUBSET ParamNames]

----------------------------------------------------------------------------
(* The mount directories *)

MountBase == <<"mounts">>

\* The host path of a mount of a run: tool.Mounts[target]
HostPath(id, target) == <<"mounts", ToString(id), target>>

\* The directories tool.CreateToolRun makes for a run with these mounts.
MountDirs(id, mounts) ==
    IF mounts = {} THEN {}
    ELSE {<<"mounts", ToString(id)>>} \cup {HostPath(id, target) : target \in mounts}

\* filepath.Dir
Dir(path) == SubSeq(path, 1, Len(path) - 1)

IsPrefix(path, q) == Len(path) <= Len(q) /\ SubSeq(q, 1, Len(path)) = path

RemoveAllOnlyPath(files, path) == files \ {path}

\* os.RemoveAll: the path and everything below it
RemoveAll(files, path) == {q \in files : ~IsPrefix(path, q)}

----------------------------------------------------------------------------
(* tool.Tool and the error values *)

FromDBRun(row) ==
    [ID |-> row.id, Name |-> row.name, Image |-> row.docker_image,
     Mounts |-> row.mounts, Status |-> row.status,
     CreatedAt |-> row.created_at, StartedAt |-> row.started_at,
     FinishedAt |-> row.finished_at, HasErrored |-> row.has_errored,
     ErrorMessage |-> row.error_message]

ZeroTool ==
    [ID |-> 0, Name |-> "", Image |-> "", Mounts |-> {}, Status |-> "",
     CreatedAt |-> Null, StartedAt |-> Null, FinishedAt |-> Null,
     HasErrored |-> FALSE, ErrorMessage |-> NoString]

\* fmt.Errorf("%s execution exited with status %d", runMode, exitCode)
ExitErrNoCode(runMode, exitCode) == <<runMode, " execution exited with status ">>

ExitErr(runMode, exitCode) == <<runMode, " execution exited with status ", ToString(exitCode)>>

ErroredMessageNoCause(t, origError) ==
    <<"the execution of the tool (", t.Name, ") container (", t.Image,
      ") errored unexpectedly: ">>

\* the error_message that updateDB("errored", origError) persists
ErroredMessage(t, origError) ==
    <<"the execution of the tool (", t.Name, ") container (", t.Image,
      ") errored unexpectedly: ">> \o origError

Contains(msg, piece) == \E i \in DOMAIN msg : msg[i] = piece

----------------------------------------------------------------------------
(* The state after construction *)

RunIds == 1..MaxRuns
ExecIds == 1..MaxExecs
ReqIds == 1..MaxReqs

\* What RunTool and the handlers read of the tool.Tool they are handed.
Handed(t) == [ID |-> t.ID, Name |-> t.Name, Image |-> t.Image, Mounts |-> t.Mounts]

\* container.Config as RunTool fills it in: the entrypoint and the command it
\* sets over those of the image
ZeroConfig == [Entrypoint |-> <<>>, Cmd |-> <<>>]

\* The frame of a RunTool goroutine; config is the container.Config it builds
\* and probed what toolImage.ProbeGotap told it, if it called it.  terminals, started,
\* meta and fromPending are history: the terminal transitions and the
\* transitions to running this execution has applied, what it found at
\* _metadata.json and did with it, and whether the row was pending on entry.
\* A frame with pc "done" is what an execution that has returned leaves
\* behind: its tool, its exit code, its result and its history.
IdleExec ==
    [pc |-> "idle", tool |-> Handed(ZeroTool), user |-> NoUser, cmd |-> FALSE,
     runMode |-> "default", config |-> ZeroConfig, probed |-> "no",
     exitCode |-> 0, ret |-> Nil, cont |-> "none",
     logs |-> "none", terminals |-> 0, started |-> 0, meta |-> "none",
     fromPending |-> FALSE]

Returned(x, err, terminals) ==
    [IdleExec EXCEPT !.pc = "done", !.tool = x.tool, !.ret = err,
                     !.exitCode = x.exitCode,
                     !.cont = IF x.cont = "created" THEN "removed" ELSE x.cont,
                     !.logs = IF x.logs = "open" THEN "closed" ELSE x.logs,
                     !.terminals = terminals, !.started = x.started,
                     !.meta = x.meta, !.fromPending = x.fromPending]

\* A request in flight; created is the run CreateAndStartRun has created.
IdleReq ==
    [op |-> "none", stage |-> "none", user |-> NoUser, tool |-> Handed(ZeroTool),
     created |-> ZeroTool]

\* The MCP server before mcp.NewServer: no configuration, no request answered
NoServer == [built |-> FALSE, cfg |-> [AuthRequired |-> FALSE, InsecureNoAuth |-> FALSE],
             answered |-> <<>>]

\* The tags ReadAllTools probes: the first tag of every image that has one
imagesWithTags == {Head(img.RepoTags) : img \in {i \in Summary : Len(i.RepoTags) > 0}}

PassIds == 1..MaxPasses
LoadIds == 1..MaxLoads

\* The frame of a ReadAllTools call: the results buffered in resultChan, the
\* number of results received, allTools, and what the call returned.
IdlePass ==
    [pc |-> "idle", buf |-> {}, got |-> 0, tools |-> {},
     ret |-> "none", err |-> Nil]

\* The frame of a probe goroutine: the image spec it holds, the citation it
\* read, the tool names it has still to insert, its slugs, and the error it
\* reports.  fault is history: why readToolSpec failed in this goroutine.
IdleProbe ==
    [pc |-> "none", spec |-> <<>>, cit |-> NoCff, todo |-> {}, tools |-> {},
     err |-> Nil, fault |-> "none"]

\* The frame of a LoadToolSpec call
IdleLoad == [pc |-> "idle", image |-> "", name |-> "", ret |-> "none"]

DiscIdle ==
    /\ passes = [p \in PassIds |-> IdlePass]
    /\ probes = [k \in PassIds \X imagesWithTags |-> IdleProbe]
    /\ loads = [l \in LoadIds |-> IdleLoad]
    /\ detected = [image \in imagesWithTags |-> 0]

Init ==
    /\ runs = <<>>
    /\ nextId = 1
    /\ applied = [i \in RunIds |-> {}]
    /\ execs = [e \in ExecIds |-> IdleExec]
    /\ reqs = [q \in ReqIds |-> IdleReq]
    /\ cache = EmptyCache
    /\ crashed = FALSE
    /\ fs = {MountBase}
    /\ DiscIdle
    /\ mcp = NoServer

\* strings.TrimSpace on a text given as the sequence of its pieces
Whitespace == {" ", "\n"}

RECURSIVE TrimLeft(_)
TrimLeft(txt) ==
    IF txt # <<>> /\ Head(txt) \in Whitespace THEN TrimLeft(Tail(txt)) ELSE txt

RECURSIVE TrimRight(_)
TrimRight(txt) ==
    IF txt # <<>> /\ txt[Len(txt)] \in Whitespace
    THEN TrimRight(SubSeq(txt, 1, Len(txt) - 1))
    ELSE txt

TrimSpace(txt) == TrimRight(TrimLeft(txt))

----------------------------------------------------------------------------
(* toolImage: the throwaway containers *)

\* How far one runContainerCommand gets: the call that fails, or "ok".
CommandPaths == {"create", "start", "wait", "status", "logs", "copy", "ok"}

CommandExitCodes == {0, 1}

Outputs == {<<>>, <<"\n">>, <<"/usr/bin/gotap", "\n">>}

\* What the runtime does with one throwaway container.
CommandRuns ==
    {[path |-> q, exitCode |-> 0, stdout |-> <<>>] : q \in CommandPaths \ {"ok"}}
    \cup [path : {"ok"}, exitCode : CommandExitCodes, stdout : Outputs]

\* The deferred calls that have been registered when the command ends at this path.
RemoveDeferredOnSuccess(path) == path = "ok"

RemoveDeferred(path) == path # "create"

CloseDeferred(path) == path \in {"copy", "ok"}

\* toolImage.runContainerCommand: its results, and the containers and log
\* streams it has created, removed, opened and closed when it returns
runContainerCommand(run) ==
    [stdout |-> IF run.path = "ok" THEN run.stdout ELSE <<>>,
     exitCode |-> IF run.path = "ok" THEN run.exitCode ELSE 0,
     err |-> CASE run.path = "ok" -> Nil
               [] run.path = "status" -> <<"container wait error: ", "status">>
               [] OTHER -> DockerErr(run.path),
     created |-> IF run.path # "create" THEN 1 ELSE 0,
     removed |-> IF RemoveDeferred(run.path) THEN 1 ELSE 0,
     opened |-> IF run.path \in {"copy", "ok"} THEN 1 ELSE 0,
     closed |-> IF CloseDeferred(run.path) THEN 1 ELSE 0]

\* toolImage.ProbeGotap
ProbeGotap(run) ==
    LET c == runContainerCommand(run)
        none == [path |-> <<>>, found |-> FALSE, err |-> Nil]
    IN  IF c.err # Nil THEN [none EXCEPT !.err = c.err]
        ELSE IF c.exitCode # 0 THEN none
        ELSE IF TrimSpace(c.stdout) = <<>> THEN none
        ELSE [none EXCEPT !.path = TrimSpace(c.stdout), !.found = TRUE]

\* toolspec.LoadToolSpec: the text of a specification file, or not
SpecText == <<"tools:", "\n">>

BadText == <<"{oops">>

\* The same file as the shim prints it back
ShimText == <<"tools:", "\n", "\n">>

Parses(stdout) == stdout \in {SpecText, ShimText}

\* The runs of the shim sub-invocations and of cat that a probe can meet
SubRuns ==
    {[path |-> "create", exitCode |-> 0, stdout |-> <<>>],
     [path |-> "wait", exitCode |-> 0, stdout |-> <<>>],
     [path |-> "ok", exitCode |-> 1, stdout |-> <<>>],
     [path |-> "ok", exitCode |-> 0, stdout |-> <<"\n">>],
     [path |-> "ok", exitCode |-> 0, stdout |-> BadText],
     [path |-> "ok", exitCode |-> 0, stdout |-> SpecText]}

ShimSubRuns ==
    {r \in SubRuns : r.path = "create" \/ r.exitCode = 1 \/ r.stdout \in {BadText, SpecText}}

ShimRuns == [1..3 -> ShimSubRuns]

\* What one readToolSpec meets: the detection of the shim, its three
\* sub-invocations when the shim is there, and the cat of /src/tool.yml
ReadEnvs ==
    {[probe |-> pr, shim |-> IF ProbeGotap(pr).found THEN sh ELSE <<>>, cat |-> ct] :
        pr \in CommandRuns, sh \in ShimRuns, ct \in SubRuns}

\* The containers and streams of a sequence of commands
Tally(cs) ==
    LET RECURSIVE Sum(_, _)
        Sum(f, i) == IF i > Len(cs) THEN 0 ELSE cs[i][f] + Sum(f, i + 1)
    IN  [created |-> Sum("created", 1), removed |-> Sum("removed", 1),
         opened |-> Sum("opened", 1), closed |-> Sum("closed", 1)]

\* The loop over the shim's sub-invocations: the commands run, and whether one
\* of them has answered a specification that parses
\* The sub-invocations of the shim, in the order of the loop
ShimCommands ==
    <<<<"metadata", "--spec-file", "/src/tool.yml">>,
      <<"parse", "--spec-file", "/src/tool.yml">>,
      <<"parse", "/src/tool.yml">>>>

RECURSIVE TryShimLastWins(_, _)
TryShimLastWins(shim, i) ==
    IF i > Len(shim) THEN [cs |-> <<>>, tried |-> <<>>, ok |-> FALSE, text |-> <<>>]
    ELSE LET c == runContainerCommand(shim[i])
             rest == TryShimLastWins(shim, i + 1)
             mine == ~(c.err # Nil \/ c.exitCode # 0 \/ TrimSpace(c.stdout) = <<>>
                       \/ ~Parses(c.stdout))
         IN  [cs |-> <<c>> \o rest.cs, tried |-> <<ShimCommands[i]>> \o rest.tried,
              ok |-> mine \/ rest.ok,
              text |-> IF rest.ok THEN rest.text ELSE IF mine THEN c.stdout ELSE <<>>]

RECURSIVE TryShim(_, _)
TryShim(shim, i) ==
    IF i > Len(shim) THEN [cs |-> <<>>, tried |-> <<>>, ok |-> FALSE, text |-> <<>>]
    ELSE LET c == runContainerCommand(shim[i])
         IN  IF c.err # Nil \/ c.exitCode # 0 \/ TrimSpace(c.stdout) = <<>>
                \/ ~Parses(c.stdout)
             THEN LET rest == TryShim(shim, i + 1)
                  IN  [cs |-> <<c>> \o rest.cs, tried |-> <<ShimCommands[i]>> \o rest.tried,
                       ok |-> rest.ok, text |-> rest.text]
             ELSE [cs |-> <<c>>, tried |-> <<ShimCommands[i]>>, ok |-> TRUE,
                   text |-> c.stdout]

\* toolImage.readToolSpec: the specification file or the error, why it failed
\* (a call of the runtime, or no specification in the image), the commands
\* run, the sub-invocations of the shim among them, and the output it parsed
readToolSpec(image, env) ==
    LET first == runContainerCommand(env.probe)
        g == ProbeGotap(env.probe)
        shim == IF g.found THEN TryShim(env.shim, 1)
                ELSE [cs |-> <<>>, tried |-> <<>>, ok |-> FALSE, text |-> <<>>]
        cat == runContainerCommand(env.cat)
        res == [spec |-> <<>>, err |-> Nil, fault |-> "none", cs |-> <<first>>,
                tried |-> <<>>, cat |-> FALSE, text |-> <<>>]
    IN  IF g.err # Nil
        THEN [res EXCEPT !.err = g.err, !.fault = "runtime"]
        ELSE IF shim.ok
        THEN [res EXCEPT !.spec = ImageSpecFile(image), !.cs = <<first>> \o shim.cs,
                         !.tried = shim.tried, !.text = shim.text]
        ELSE LET all == [res EXCEPT !.cs = <<first>> \o shim.cs \o <<cat>>,
                                    !.tried = shim.tried, !.cat = TRUE]
             IN  IF cat.err # Nil
                 THEN [all EXCEPT !.err = cat.err, !.fault = "runtime"]
                 ELSE IF cat.exitCode # 0
                 THEN [all EXCEPT !.err = <<"the container errored while identifying the tool spec">>,
                                  !.fault = "nospec"]
                 ELSE IF TrimSpace(cat.stdout) = <<>>
                 THEN [all EXCEPT !.err = <<"the container did not respond">>,
                                  !.fault = "nospec"]
                 ELSE IF ~Parses(cat.stdout)
                 THEN [all EXCEPT !.err = <<"the container ", image,
                                            " did not contain a valid tool-spec at /src/tool.yml">>,
                                  !.fault = "nospec"]
                 ELSE [all EXCEPT !.spec = ImageSpecFile(image), !.text = cat.stdout]

\* How far one readToolCitation gets: the call that fails, what it reads, or "ok".
CitationPaths == {"create", "start", "wait", "logs", "stderr", "empty", "parse", "ok"}

\* toolImage.readToolCitation, with its container and its log stream
readToolCitation(image, path) ==
    [citation |-> IF path = "ok" THEN Cff(image) ELSE NoCff,
     err |-> CASE path = "ok" -> Nil
               [] path = "stderr" -> <<"Error while reading CITATION.cff">>
               [] path = "empty" -> <<"No CITATION.cff found in the container ", image>>
               [] path = "parse" -> <<"Error while parsing CITATION.cff">>
               [] OTHER -> DockerErr(path),
     created |-> IF path # "create" THEN 1 ELSE 0,
     removed |-> IF RemoveDeferred(path) THEN 1 ELSE 0,
     opened |-> IF path \in {"stderr", "empty", "parse", "ok"} THEN 1 ELSE 0,
     closed |-> IF path \in {"stderr", "empty", "parse", "ok"} THEN 1 ELSE 0]

----------------------------------------------------------------------------
(* tool.RunTool *)

Transition(status) == IF status = "started" THEN "running" ELSE status

updateDBSkipsErrored(rs, t, user, status, origError) ==
    CASE status = "started" -> DBStartRun(rs, t.ID, user)
      [] status = "finished" -> DBFinishRun(rs, t.ID)
      [] status = "errored" -> Result(rs, Nil)

\* the closure updateDB: the statement it runs for a status
updateDB(rs, t, user, status, origError) ==
    CASE status = "started" -> DBStartRun(rs, t.ID, user)
      [] status = "finished" -> DBFinishRun(rs, t.ID)
      [] status = "errored" ->
           DBRunErrored(rs, t.ID, NullString(ErroredMessage(t, origError)))

\* Execution e persists a transition and goes on to pc next; a statement that
\* fails ends the process (log.Fatal).
Persist(e, status, origError, next, ret) ==
    LET x == execs[e]
        res == updateDB(runs, x.tool, x.user, status, origError)
        terminal == IF status \in {"finished", "errored"} THEN 1 ELSE 0
        y == [x EXCEPT !.started = @ + (IF status = "started" THEN 1 ELSE 0)]
    IN  /\ runs' = res.rows
        /\ crashed' = (res.err # Nil)
        /\ applied' = IF res.err = Nil
                      THEN [applied EXCEPT ![x.tool.ID] = @ \cup {Transition(status)}]
                      ELSE applied
        /\ execs' = IF res.err # Nil THEN execs
                    ELSE IF next = "done"
                    THEN [execs EXCEPT ![e] = Returned(y, ret, x.terminals + terminal)]
                    ELSE [execs EXCEPT ![e] =
                             [y EXCEPT !.pc = next, !.terminals = @ + terminal]]

\* Execution e returns err without touching the runs table.
Return(e, err) ==
    /\ execs' = [execs EXCEPT ![e] = Returned(execs[e], err, execs[e].terminals)]
    /\ UNCHANGED <<runs, applied, crashed>>

Goto(e, next) ==
    /\ execs' = [execs EXCEPT ![e].pc = next]
    /\ UNCHANGED <<runs, applied, crashed>>

EngineFrame == UNCHANGED <<nextId, reqs, cache, fs, discVars, mcp>>

RT_NewClientStartsRun(e) ==
    /\ ~crashed
    /\ execs[e].pc = "client"
    /\ \/ Return(e, DockerErr("client"))
       \/ Persist(e, "started", Nil, "mode", Nil)
    /\ EngineFrame

\* client.NewClientWithOpts
RT_NewClient(e) ==
    /\ ~crashed
    /\ execs[e].pc = "client"
    /\ \/ Return(e, DockerErr("client"))
       \/ Goto(e, "mode")
    /\ EngineFrame

\* opt.Cmd of a caller that overrides the command
CustomCmd == <<"sh", "-c", "true">>

\* the command that runs a tool through the shim
GotapCmd(name) ==
    <<"run", name, "--input-file", "/in/inputs.json", "--spec-file", "/src/tool.yml",
      "--output-folder", "/out">>

NoProbe == [path |-> <<>>, found |-> FALSE, err |-> Nil]

ResolvedShimIgnored(cmd, name, g) ==
    [runMode |-> "default",
     config |-> IF cmd THEN [ZeroConfig EXCEPT !.Cmd = CustomCmd] ELSE ZeroConfig]

\* runMode and config after the run mode resolution; g is what ProbeGotap
\* returned when there is no command override
Resolved(cmd, name, g) ==
    IF cmd
    THEN [runMode |-> "default", config |-> [ZeroConfig EXCEPT !.Cmd = CustomCmd]]
    ELSE IF g.found
    THEN [runMode |-> "gotap",
          config |-> [Entrypoint |-> <<g.path>>, Cmd |-> GotapCmd(name)]]
    ELSE [runMode |-> "default", config |-> ZeroConfig]

\* run mode: the command override, or toolImage.ProbeGotap
RT_ResolveMode(e) ==
    /\ ~crashed
    /\ execs[e].pc = "mode"
    /\ IF execs[e].cmd
       THEN LET r == Resolved(TRUE, execs[e].tool.Name, NoProbe)
            IN  /\ execs' = [execs EXCEPT ![e].pc = "create", ![e].runMode = r.runMode,
                                          ![e].config = r.config]
                /\ UNCHANGED <<runs, applied, crashed>>
       ELSE \E run \in CommandRuns :
              LET g == ProbeGotap(run)
                  r == Resolved(FALSE, execs[e].tool.Name, g)
              IN  IF g.err # Nil THEN Persist(e, "errored", g.err, "done", g.err)
                  ELSE /\ execs' = [execs EXCEPT ![e].pc = "create", ![e].probed = IF g.found THEN "found" ELSE "absent",
                                                ![e].runMode = r.runMode,
                                                ![e].config = r.config]
                       /\ UNCHANGED <<runs, applied, crashed>>
    /\ EngineFrame

RT_CreateStartsRun(e) ==
    /\ ~crashed
    /\ execs[e].pc = "create"
    /\ \/ Persist(e, "errored", DockerErr("create"), "done", DockerErr("create"))
       \/ /\ runs' = updateDB(runs, execs[e].tool, execs[e].user, "started", Nil).rows
          /\ applied' = [applied EXCEPT ![execs[e].tool.ID] = @ \cup {"running"}]
          /\ execs' = [execs EXCEPT ![e].pc = "start", ![e].cont = "created"]
          /\ UNCHANGED crashed
    /\ EngineFrame

\* c.ContainerCreate
RT_Create(e) ==
    /\ ~crashed
    /\ execs[e].pc = "create"
    /\ \/ Persist(e, "errored", DockerErr("create"), "done", DockerErr("create"))
       \/ /\ execs' = [execs EXCEPT ![e].pc = "start", ![e].cont = "created"]
          /\ UNCHANGED <<runs, applied, crashed>>
    /\ EngineFrame

\* c.ContainerStart, then updateDB("started")
RT_Start(e) ==
    /\ ~crashed
    /\ execs[e].pc = "start"
    /\ \/ Persist(e, "errored", DockerErr("start"), "done", DockerErr("start"))
       \/ Persist(e, "started", Nil, "wait", Nil)
    /\ EngineFrame

\* c.ContainerWait: an error on errCh, a status carrying an error, or an exit code
RT_Wait(e) ==
    /\ ~crashed
    /\ execs[e].pc = "wait"
    /\ \/ Persist(e, "errored", DockerErr("wait"), "done", DockerErr("wait"))
       \/ Persist(e, "errored", <<"wait status error">>, "done", <<"wait status error">>)
       \/ \E code \in ExitCodes :
            /\ execs' = [execs EXCEPT ![e].pc = "logs", ![e].exitCode = code]
            /\ UNCHANGED <<runs, applied, crashed>>
    /\ EngineFrame

\* c.ContainerLogs
RT_Logs(e) ==
    /\ ~crashed
    /\ execs[e].pc = "logs"
    /\ \/ Return(e, DockerErr("logs"))
       \/ /\ execs' = [execs EXCEPT ![e].pc = "copy", ![e].logs = "open"]
          /\ UNCHANGED <<runs, applied, crashed>>
    /\ EngineFrame

RT_CopyThenFinal(e) ==
    /\ ~crashed
    /\ execs[e].pc = "copy"
    /\ \/ Persist(e, "errored", DockerErr("stdcopy"), "done", DockerErr("stdcopy"))
       \/ Goto(e, "final")
    /\ EngineFrame

\* stdcopy.StdCopy
RT_Copy(e) ==
    /\ ~crashed
    /\ execs[e].pc = "copy"
    /\ \/ Persist(e, "errored", DockerErr("stdcopy"), "done", DockerErr("stdcopy"))
       \/ Goto(e, "files")
    /\ EngineFrame

\* What os.ReadFile finds at <out>/_metadata.json: no file, a read error, or a content.
MetadataContents == {<<"{\"ok\":true}", "\n">>, <<"{oops">>}

MetadataFiles ==
    {[found |-> "absent", content |-> <<>>], [found |-> "unreadable", content |-> <<>>]}
    \cup {[found |-> "read", content |-> txt] : txt \in MetadataContents}

JSONValidAlways(txt) == TRUE

JSONValid(txt) == TrimSpace(txt) = <<"{\"ok\":true}">>

LogFiles == {"STDOUT.log", "STDERR.log"}

\* os.WriteFile: the file is made when its directory exists; the error is
\* dropped by the caller
WriteFile(files, dir, name) ==
    IF dir \in files THEN files \cup {Append(dir, name)} ELSE files

\* What the metadata step did with the file it found
MetaOutcome(f, failed) ==
    CASE f.found # "read" -> f.found
      [] ~JSONValid(f.content) -> "invalid"
      [] failed -> "unsaved"
      [] OTHER -> "saved"

\* the log files in the output mount, then the structured metadata; the
\* statement that persists the metadata may fail, which is only logged
RT_Files(e) ==
    /\ ~crashed
    /\ execs[e].pc = "files"
    /\ IF "/out" \in execs[e].tool.Mounts
       THEN LET outDir == HostPath(execs[e].tool.ID, "/out")
            IN  /\ fs' = WriteFile(WriteFile(fs, outDir, "STDOUT.log"), outDir, "STDERR.log")
                /\ \E f \in MetadataFiles, dbFails \in BOOLEAN :
                     LET res == DBSetRunGotapMetadata(runs, execs[e].tool.ID,
                                                      NullString(TrimSpace(f.content)))
                         failed == dbFails \/ res.err # Nil
                     IN  /\ runs' = IF f.found = "read" /\ JSONValid(f.content) /\ ~failed
                                    THEN res.rows ELSE runs
                         /\ execs' = [execs EXCEPT ![e].pc = "final",
                                                   ![e].meta = MetaOutcome(f, failed)]
       ELSE /\ execs' = [execs EXCEPT ![e].pc = "final"]
            /\ UNCHANGED <<runs, fs>>
    /\ UNCHANGED <<applied, crashed>>
    /\ UNCHANGED <<nextId, reqs, cache, discVars, mcp>>

\* the final transition on the exit code
RT_Final(e) ==
    /\ ~crashed
    /\ execs[e].pc = "final"
    /\ IF execs[e].exitCode # 0
       THEN Persist(e, "errored", ExitErr(execs[e].runMode, execs[e].exitCode), "done",
                    ExitErr(execs[e].runMode, execs[e].exitCode))
       ELSE Persist(e, "finished", Nil, "done", Nil)
    /\ EngineFrame

\* go tool.RunTool(context.Background(), opt): the first slot that holds no
\* running execution takes the frame
FreeExec(e) ==
    /\ execs[e].pc \in {"idle", "done"}
    /\ \A d \in ExecIds : d < e => execs[d].pc \notin {"idle", "done"}

Launched(e, user, t) ==
    [execs EXCEPT ![e] =
        [IdleExec EXCEPT !.pc = "client", !.tool = Handed(t), !.user = user,
                         !.fromPending = HasRow(runs, t.ID) /\ runs[t.ID].status = "pending"]]

----------------------------------------------------------------------------
(* The service layer *)

FreeReq(q) ==
    /\ reqs[q].op = "none"
    /\ \A d \in ReqIds : d < q => reqs[d].op # "none"

\* The user id check at the head of every service operation.
AnyCaller(user) == TRUE

Authorized(user) == user # NoUser

\* tool.CreateToolRun: the derived mounts and the inserted row
CreateToolRun(id, payload, mounts, user) ==
    DBCreateRun(id, payload.ToolName, payload.DockerImage, mounts, user)

\* Service.ValidateAndCreateRun up to the insert: the error it returns for a
\* caller and a payload, with the validation detail.
CheckedUnvalidated(c, user, payload) ==
    LET slug == Slug(payload.DockerImage, payload.ToolName)
        got == CacheGetToolSpec(c, slug)
    IN  IF ~Authorized(user) THEN [err |-> ErrUnauthorized, errors |-> {}]
        ELSE IF ~got.found THEN [err |-> ErrNotFoundTool(slug), errors |-> {}]
        ELSE [err |-> Nil, errors |-> {}]

Checked(c, user, payload) ==
    LET slug == Slug(payload.DockerImage, payload.ToolName)
        got == CacheGetToolSpec(c, slug)
    IN  IF ~Authorized(user) THEN [err |-> ErrUnauthorized, errors |-> {}]
        ELSE IF ~got.found THEN [err |-> ErrNotFoundTool(slug), errors |-> {}]
        ELSE LET v == ValidateInputs(got.spec, payload)
             IN  IF v.hasErrors THEN [err |-> ErrValidation(slug), errors |-> v.errs]
                 ELSE [err |-> Nil, errors |-> {}]

ValidateAndCreateRun(user, payload) ==
    /\ ~crashed
    /\ IF Checked(cache, user, payload).err # Nil
       THEN UNCHANGED <<runs, nextId, fs>>
       ELSE /\ nextId <= MaxRuns
            /\ \E mounts \in MountChoices :
                 /\ runs' = (nextId :> CreateToolRun(nextId, payload, mounts, user)) @@ runs
                 /\ fs' = fs \cup MountDirs(nextId, mounts)
            /\ nextId' = nextId + 1
    /\ UNCHANGED <<applied, execs, reqs, cache, crashed, discVars, mcp>>

\* What Service.StartRun returns before it launches anything.
StartRunRefusal(user) == IF Authorized(user) THEN Nil ELSE ErrUnauthorized

\* Service.StartRun up to the sleep: the id check and the detached execution
StartRun(user, id) ==
    /\ ~crashed
    /\ HasRow(runs, id)
    /\ IF StartRunRefusal(user) # Nil
       THEN UNCHANGED <<execs, reqs>>
       ELSE \E e \in ExecIds, q \in ReqIds :
              /\ FreeExec(e)
              /\ execs' = Launched(e, user, FromDBRun(runs[id]))
              /\ FreeReq(q)
              /\ reqs' = [reqs EXCEPT ![q] =
                             [IdleReq EXCEPT !.op = "StartRun", !.stage = "read",
                                             !.user = user,
                                             !.tool = Handed(FromDBRun(runs[id]))]]
    /\ UNCHANGED <<runs, nextId, applied, cache, crashed, fs, discVars, mcp>>

\* Service.CreateAndStartRun up to the sleep of its StartRun
CreateAndStartRun(user, payload) ==
    /\ ~crashed
    /\ IF Checked(cache, user, payload).err # Nil
       THEN UNCHANGED <<runs, nextId, execs, reqs, fs>>
       ELSE /\ nextId <= MaxRuns
            /\ \E mounts \in MountChoices, e \in ExecIds, q \in ReqIds :
                 LET row == CreateToolRun(nextId, payload, mounts, user)
                 IN  /\ runs' = (nextId :> row) @@ runs
                     /\ fs' = fs \cup MountDirs(nextId, mounts)
                     /\ FreeExec(e)
                     /\ execs' = [execs EXCEPT ![e] =
                                     [IdleExec EXCEPT !.pc = "client",
                                                      !.tool = Handed(FromDBRun(row)),
                                                      !.user = user,
                                                      !.fromPending = row.status = "pending"]]
                     /\ FreeReq(q)
                     /\ reqs' = [reqs EXCEPT ![q] =
                                    [op |-> "CreateAndStartRun", stage |-> "read",
                                     user |-> user, tool |-> Handed(FromDBRun(row)),
                                     created |-> FromDBRun(row)]]
            /\ nextId' = nextId + 1
    /\ UNCHANGED <<applied, cache, crashed, discVars, mcp>>

StartRunResultFails(rs, r) ==
    LET got == DBGetRun(rs, r.tool.ID, r.user)
        ok == [err |-> Nil, run |-> ZeroTool, startFailed |-> FALSE, startError |-> Nil]
    IN  IF got.err = Nil THEN [ok EXCEPT !.run = FromDBRun(got.row)]
        ELSE [ok EXCEPT !.err = got.err]

\* What the call in flight returns after the sleep: s.DB.GetRun and the status
\* snapshot.  CreateAndStartRun turns an error of StartRun into StartFailed on
\* the created run.
StartRunResult(rs, r) ==
    LET got == DBGetRun(rs, r.tool.ID, r.user)
        ok == [err |-> Nil, run |-> ZeroTool, startFailed |-> FALSE, startError |-> Nil]
    IN  IF got.err = Nil THEN [ok EXCEPT !.run = FromDBRun(got.row)]
        ELSE IF r.op = "CreateAndStartRun"
        THEN [ok EXCEPT !.run = r.created, !.startFailed = TRUE, !.startError = got.err]
        ELSE [ok EXCEPT !.err = got.err]

\* Server.handleRunTool of the MCP adapter: what the run_tool tool answers for
\* the result of CreateAndStartRun
handleRunTool(res) ==
    IF res.err # Nil
    THEN [isError |-> TRUE, text |-> res.err, run_id |-> 0, status |-> "",
          start_error |-> Nil]
    ELSE [isError |-> FALSE, text |-> Nil, run_id |-> res.run.ID,
          status |-> IF res.startFailed THEN "error_start_failed" ELSE res.run.Status,
          start_error |-> IF res.startFailed THEN res.startError ELSE Nil]

StartRunReadEndsExecution(q) ==
    /\ ~crashed
    /\ reqs[q].stage = "read"
    /\ reqs' = [reqs EXCEPT ![q] = IdleReq]
    /\ execs' = [e \in ExecIds |->
                   IF execs[e].pc \notin {"idle", "done"} /\ execs[e].tool = reqs[q].tool
                   THEN Returned(execs[e], ErrCanceled, execs[e].terminals)
                   ELSE execs[e]]
    /\ UNCHANGED <<runs, nextId, applied, cache, crashed, fs, discVars, mcp>>

\* StartRun after the sleep: the read of the row and the return
StartRunRead(q) ==
    /\ ~crashed
    /\ reqs[q].stage = "read"
    /\ reqs' = [reqs EXCEPT ![q] = IdleReq]
    /\ UNCHANGED <<runs, nextId, applied, execs, cache, crashed, fs, discVars, mcp>>

\* Service.GetRunDetail; ListRunResults and GetResultFile read the run through it
\* before they touch the output directory.
GetRunDetail(rs, user, id) ==
    IF ~Authorized(user) THEN [err |-> ErrUnauthorized, out |-> {}]
    ELSE LET got == DBGetRun(rs, id, user)
         IN  IF got.err # Nil THEN [err |-> got.err, out |-> {}]
             ELSE [err |-> Nil, out |-> {FromDBRun(got.row)}]

ListRunResults(rs, user, id) == GetRunDetail(rs, user, id)

GetResultFile(rs, user, id) == GetRunDetail(rs, user, id)

\* ---- the classification of the errors of the service ----

ErrNotFound == <<"not found">>

\* errors.Is(err, target) for an error made with %w in front of its text
Is(err, target) == err # Nil /\ SubSeq(err, 1, Len(target)) = target

\* The pieces of the error texts of the service that hold "not found" once
\* they are put in lower case
MentionsNotFound(piece) == piece \in {"not found", " was not found in the image "}

IsUnauthorized(err) == Is(err, ErrUnauthorized)

\* errors.As(err, &ve): the error is a ValidationError
IsValidationError(err) ==
    err # Nil /\ Head(err) = "the provided payload is invalid for the tool "

IsNotFound(err) ==
    Is(err, ErrNotFound) \/ \E i \in DOMAIN err : MentionsNotFound(err[i])

----------------------------------------------------------------------------
(* The REST handlers for runs *)

ErrUserRequired == <<"User ID is required">>

\* api.GetAllRuns: the query picked for the status filter, and the response
GetAllRuns(rs, user, filter) ==
    IF user = NoUser THEN [err |-> ErrUserRequired, out |-> {}]
    ELSE [err |-> Nil,
          out |-> {FromDBRun(r) : r \in
                     CASE filter = "pending" -> DBGetIdleRuns(rs, user)
                       [] filter = "running" -> DBGetRunning(rs, user)
                       [] filter = "finished" -> DBGetFinishedRuns(rs, user)
                       [] filter = "errored" -> DBGetErroredRuns(rs, user)
                       [] OTHER -> DBGetAllRuns(rs, user)}]

Handlers == {"DeleteRun"}

\* What RunMiddleware does with a request: the error it answers, else the run it
\* hands to the handler.
Admitted(rs, user, id) ==
    IF user = NoUser THEN [err |-> ErrUserRequired, out |-> {}]
    ELSE LET got == DBGetRun(rs, id, user)
         IN  IF got.err # Nil THEN [err |-> got.err, out |-> {}]
             ELSE [err |-> Nil, out |-> {FromDBRun(got.row)}]

RunMiddleware(user, id, handler) ==
    /\ ~crashed
    /\ LET m == Admitted(runs, user, id)
       IN  IF m.err # Nil
           THEN UNCHANGED reqs
           ELSE \E q \in ReqIds, t \in m.out :
                  /\ FreeReq(q)
                  /\ reqs' = [reqs EXCEPT ![q] =
                                 [IdleReq EXCEPT !.op = handler, !.stage = "handler",
                                                 !.user = user, !.tool = Handed(t)]]
    /\ UNCHANGED <<runs, nextId, applied, execs, cache, crashed, fs, discVars, mcp>>

\* api.DeleteRun: the input mount's parent directory, then the row.  An error
\* of os.RemoveAll is answered and the handler goes on to the row.
DeleteRun(q) ==
    /\ ~crashed
    /\ reqs[q].op = "DeleteRun" /\ reqs[q].stage = "handler"
    /\ LET t == reqs[q].tool
           ok == "/in" \in t.Mounts
       IN  /\ \E failed \in IF ok THEN BOOLEAN ELSE {FALSE} :
                /\ fs' = IF ok /\ ~failed THEN RemoveAll(fs, Dir(HostPath(t.ID, "/in")))
                          ELSE fs
                /\ applied' = [applied EXCEPT ![t.ID] =
                                  @ \cup {"DeleteRun"} \cup (IF ok THEN {"RemoveAll"} ELSE {})
                                    \cup (IF failed THEN {"RemoveAllErr"} ELSE {})]
           /\ runs' = DBDeleteRun(runs, t.ID, reqs[q].user).rows
    /\ reqs' = [reqs EXCEPT ![q] = IdleReq]
    /\ UNCHANGED <<nextId, execs, cache, crashed, discVars, mcp>>

\* A DELETE request served from RunMiddleware to the end of api.DeleteRun with
\* no step of another goroutine in between
RunMiddlewareDeleteRun(user, id) ==
    /\ ~crashed
    /\ Admitted(runs, user, id).err = Nil
    /\ \E t \in Admitted(runs, user, id).out :
         LET ok == "/in" \in t.Mounts
         IN  /\ \E failed \in IF ok THEN BOOLEAN ELSE {FALSE} :
                  /\ fs' = IF ok /\ ~failed THEN RemoveAll(fs, Dir(HostPath(t.ID, "/in")))
                            ELSE fs
                  /\ applied' = [applied EXCEPT ![t.ID] =
                                    @ \cup {"DeleteRun"} \cup (IF ok THEN {"RemoveAll"} ELSE {})
                                      \cup (IF failed THEN {"RemoveAllErr"} ELSE {})]
             /\ runs' = DBDeleteRun(runs, t.ID, user).rows
    /\ UNCHANGED <<nextId, execs, reqs, cache, crashed, discVars, mcp>>

----------------------------------------------------------------------------
(* Discovery *)

ProbeOutcomes == {"spec", "nospec"}

\* The cache after the probe goroutine of one image has inserted its tools.
Inserted(c, image, file) ==
    LET slugs == {Slug(image, n) : n \in DOMAIN file}
        name(sl) == CHOOSE n \in DOMAIN file : Slug(image, n) = sl
    IN  [c EXCEPT !.tools = [sl \in slugs |-> [file[name(sl)] EXCEPT !.ID = sl]] @@ c.tools]

\* toolImage.ReadAllTools over the tagged images, every probe reporting
ReadAllTools ==
    /\ ~crashed
    /\ \E outcome \in [Images -> ProbeOutcomes] :
         LET probe(c, image) ==
               IF CacheGetImageSpec(c, image).found
               THEN Inserted(c, image, CacheGetImageSpec(c, image).spec)
               ELSE IF outcome[image] = "spec"
               THEN Inserted(CacheSetImageSpec(c, image, ImageSpecFile(image)),
                             image, ImageSpecFile(image))
               ELSE c
             image == CHOOSE i \in Images : TRUE
         IN  cache' = [probe(cache, image) EXCEPT !.Initialised = TRUE]
    /\ UNCHANGED <<runs, nextId, applied, execs, reqs, crashed, fs, discVars, mcp>>

\* ---- toolImage.ReadAllTools, step by step ----

\* The images of the step-by-step passes: img2 holds a specification file and
\* img1 holds none, so no command in img1 answers one.
Embeds(image) == image = "img2"

ImageEnvs(image) ==
    {env \in ReadEnvs :
        IF Embeds(image)
        THEN env.cat.path = "ok" => env.cat.exitCode = 0 /\ env.cat.stdout = SpecText
        ELSE /\ env.cat.stdout # SpecText
             /\ \A i \in DOMAIN env.shim : env.shim[i].stdout # SpecText}

\* What a probe of an image can get from readToolSpec and readToolCitation
SpecResults ==
    [tag \in imagesWithTags |->
        {[spec |-> readToolSpec(tag, env).spec, err |-> readToolSpec(tag, env).err,
          fault |-> readToolSpec(tag, env).fault] : env \in ImageEnvs(tag)}]

CitationResults ==
    [tag \in imagesWithTags |->
        {[citation |-> readToolCitation(tag, path).citation,
          ok |-> readToolCitation(tag, path).err = Nil] : path \in CitationPaths}]


\* make(chan result, len(imagesWithTags))
ChanCapUnbuffered(images) == 0

ChanCap(images) == Cardinality(images)

DiscFrame == UNCHANGED <<runs, nextId, applied, execs, reqs, crashed, fs, mcp>>

\* The call up to the collect loop: the client, the image list, the goroutines
RAT_Start(p) ==
    /\ ~crashed
    /\ passes[p].pc = "idle"
    /\ \A d \in PassIds : d < p => passes[d].pc # "idle"
    /\ \/ /\ \E op \in {"client", "images"} :
              passes' = [passes EXCEPT ![p].pc = "done", ![p].ret = "error",
                                       ![p].err = DockerErr(op)]
          /\ UNCHANGED probes
       \/ /\ passes' = [passes EXCEPT ![p].pc = "collect"]
          /\ probes' = [k \in DOMAIN probes |->
                          IF k[1] = p THEN [IdleProbe EXCEPT !.pc = "check"] ELSE probes[k]]
    /\ UNCHANGED <<cache, loads, detected>>
    /\ DiscFrame

DetectFailing(x, tag, r, c) ==
    IF r.err # Nil THEN [x EXCEPT !.pc = "send", !.fault = r.fault, !.err = r.err]
    ELSE [x EXCEPT !.pc = "store", !.spec = r.spec,
                   !.cit = IF c.ok THEN c.citation ELSE NoCff]

DetectCitationFatal(x, tag, r, c) ==
    IF r.err # Nil THEN [x EXCEPT !.pc = "send", !.fault = r.fault]
    ELSE IF ~c.ok THEN [x EXCEPT !.pc = "send", !.err = <<"Error while reading CITATION.cff">>]
    ELSE [x EXCEPT !.pc = "store", !.spec = r.spec, !.cit = c.citation]

DetectNoSend(x, tag, r, c) ==
    IF r.err # Nil THEN [x EXCEPT !.pc = "done", !.fault = r.fault]
    ELSE [x EXCEPT !.pc = "store", !.spec = r.spec,
                   !.cit = IF c.ok THEN c.citation ELSE NoCff]

\* The detection of an image that is not cached: the goroutine's own client,
\* readToolSpec and readToolCitation
Detect(x, tag, r, c) ==
    IF r.err # Nil THEN [x EXCEPT !.pc = "send", !.fault = r.fault]
    ELSE [x EXCEPT !.pc = "store", !.spec = r.spec,
                   !.cit = IF c.ok THEN c.citation ELSE NoCff]

\* image, ok := cache.GetImageSpec(tag), and on a miss the detection, which
\* touches nothing the other goroutines see
Probe_Check(p, tag) ==
    /\ ~crashed
    /\ probes[<<p, tag>>].pc = "check"
    /\ LET got == CacheGetImageSpec(cache, tag)
           x == probes[<<p, tag>>]
       IN  IF got.found
           THEN /\ probes' = [probes EXCEPT ![<<p, tag>>] =
                                [x EXCEPT !.pc = IF DOMAIN got.spec = {} THEN "send"
                                                 ELSE "recache",
                                          !.spec = got.spec, !.todo = DOMAIN got.spec]]
                /\ UNCHANGED detected
           ELSE \/ /\ probes' = [probes EXCEPT ![<<p, tag>>] =
                                   [x EXCEPT !.pc = "send", !.err = DockerErr("client")]]
                   /\ UNCHANGED detected
                \/ /\ detected' = [detected EXCEPT ![tag] = @ + 1]
                   /\ \E r \in SpecResults[tag], c \in CitationResults[tag] :
                        probes' = [probes EXCEPT ![<<p, tag>>] = Detect(x, tag, r, c)]
    /\ UNCHANGED <<cache, passes, loads>>
    /\ DiscFrame

\* cache.SetImageSpec(tag, spec)
Probe_Store(p, tag) ==
    /\ ~crashed
    /\ probes[<<p, tag>>].pc = "store"
    /\ cache' = CacheSetImageSpec(cache, tag, probes[<<p, tag>>].spec)
    /\ probes' = [probes EXCEPT ![<<p, tag>>].pc =
                                    IF DOMAIN probes[<<p, tag>>].spec = {} THEN "send"
                                    ELSE "insert",
                                ![<<p, tag>>].todo = DOMAIN probes[<<p, tag>>].spec]
    /\ UNCHANGED <<passes, loads, detected>>
    /\ DiscFrame

\* The tool a probe goroutine inserts for a name: the slug as its ID, and in
\* the uncached branch the citation when it was read.
ProbedToolUncited(x, tag, name) == [x.spec[name] EXCEPT !.ID = Slug(tag, name)]

ProbedTool(x, tag, name) ==
    IF x.pc = "insert" /\ x.cit # NoCff
    THEN [x.spec[name] EXCEPT !.ID = Slug(tag, name), !.Citation = x.cit]
    ELSE [x.spec[name] EXCEPT !.ID = Slug(tag, name)]

\* one turn of the loop over the tools: cache.SetToolSpec(slug, &tool)
Probe_Insert(p, tag) ==
    /\ ~crashed
    /\ probes[<<p, tag>>].pc \in {"insert", "recache"}
    /\ \E name \in probes[<<p, tag>>].todo :
         LET x == probes[<<p, tag>>]
         IN  /\ cache' = CacheSetToolSpec(cache, Slug(tag, name), ProbedTool(x, tag, name))
             /\ probes' = [probes EXCEPT ![<<p, tag>>] =
                              [x EXCEPT !.todo = @ \ {name},
                                        !.tools = @ \cup {Slug(tag, name)},
                                        !.pc = IF x.todo = {name} THEN "send" ELSE @]]
    /\ UNCHANGED <<passes, loads, detected>>
    /\ DiscFrame

\* resultChan <- result{tools, err}: blocks while the buffer is full
Probe_Send(p, tag) ==
    /\ ~crashed
    /\ probes[<<p, tag>>].pc = "send"
    /\ Cardinality(passes[p].buf) < ChanCap(imagesWithTags)
    /\ passes' = [passes EXCEPT ![p].buf =
                     @ \cup {[tag |-> tag, tools |-> probes[<<p, tag>>].tools,
                              err |-> probes[<<p, tag>>].err]}]
    /\ probes' = [probes EXCEPT ![<<p, tag>>] =
                     [IdleProbe EXCEPT !.pc = "done", !.tools = probes[<<p, tag>>].tools,
                                       !.err = probes[<<p, tag>>].err,
                                       !.fault = probes[<<p, tag>>].fault]]
    /\ UNCHANGED <<cache, loads, detected>>
    /\ DiscFrame

\* The flag after the last result of a pass
InitialisedAtOnce(c, last) == [c EXCEPT !.Initialised = TRUE]

Initialised(c, last) == IF last THEN [c EXCEPT !.Initialised = TRUE] ELSE c

\* one turn of the collect loop on case res := <-resultChan; after the last
\* turn cache.Initialised = true and the slugs are returned
RAT_Collect(p) ==
    /\ ~crashed
    /\ passes[p].pc = "collect"
    /\ \E res \in passes[p].buf :
         LET x == [passes[p] EXCEPT !.buf = @ \ {res}]
             last == x.got + 1 = Cardinality(imagesWithTags)
         IN  IF res.err # Nil
             THEN /\ passes' = [passes EXCEPT ![p] =
                                   [x EXCEPT !.pc = "done", !.ret = "error", !.err = res.err,
                                             !.tools = {}]]
                  /\ cache' = cache
             ELSE /\ passes' = [passes EXCEPT ![p] =
                                   [x EXCEPT !.got = @ + 1, !.tools = @ \cup res.tools,
                                             !.pc = IF last THEN "done" ELSE @,
                                             !.ret = IF last THEN "slugs" ELSE @]]
                  /\ cache' = Initialised(cache, last)
    /\ UNCHANGED <<probes, loads, detected>>
    /\ DiscFrame

\* The caller has cancelled the context, and a turn of the collect loop takes
\* case <-ctx.Done()
RAT_Done(p) ==
    /\ ~crashed
    /\ passes[p].pc = "collect"
    /\ passes' = [passes EXCEPT ![p].pc = "done", ![p].ret = "error",
                                ![p].err = ErrCanceled, ![p].tools = {}]
    /\ UNCHANGED <<cache, probes, loads, detected>>
    /\ DiscFrame

\* ---- toolImage.LoadToolSpec ----

LoadSlugs == {Slug("img2", "t1"), Slug("img2", "tX"), <<"t1">>}

\* strings.Split(toolSlug, "::")
Chunks(slug) == SelectSeq(slug, LAMBDA piece : piece # "::")

ErrNotInImage(name, image) == <<"the tool ", name, " was not found in the image ", image>>

\* The tools LoadToolSpec inserts for a specification file it has read: under
\* the tool's name, as the file holds them
LoadedSlugged(c, image, file) ==
    [c EXCEPT !.tools = [k \in {Slug(image, n) : n \in DOMAIN file} |-> file[k[3]]] @@ c.tools]

Loaded(c, image, file) ==
    [c EXCEPT !.tools = [k \in {<<n>> : n \in DOMAIN file} |-> file[k[1]]] @@ c.tools]

\* The call up to the reading of the image: the slug without an image is
\* answered from the tools of the cache, the slug of a cached image from its
\* image spec
Load_Start(l, slug) ==
    /\ ~crashed
    /\ loads[l].pc = "idle"
    /\ LET chunks == Chunks(slug)
           byName == CacheGetToolSpec(cache, slug)
           image == CacheGetImageSpec(cache, chunks[1])
           done == [loads[l] EXCEPT !.pc = "done", !.ret = "error"]
       IN  loads' = [loads EXCEPT ![l] =
                       IF Len(chunks) = 1
                       THEN IF byName.found
                            THEN [done EXCEPT !.ret = "tool"]
                            ELSE done
                       ELSE IF ~image.found
                       THEN [@ EXCEPT !.pc = "detect", !.image = chunks[1],
                                      !.name = chunks[2]]
                       ELSE IF chunks[2] \in DOMAIN image.spec
                       THEN [done EXCEPT !.ret = "tool"]
                       ELSE done]
    /\ UNCHANGED <<cache, passes, probes, detected>>
    /\ DiscFrame

\* readToolSpec, readToolCitation, the inserts and the answer
Load_Detect(l) ==
    /\ ~crashed
    /\ loads[l].pc = "detect"
    /\ detected' = [detected EXCEPT ![loads[l].image] = @ + 1]
    /\ \E r \in SpecResults[loads[l].image] :
         LET x == loads[l]
             done == [x EXCEPT !.pc = "done", !.ret = "error"]
         IN  IF r.err # Nil
             THEN /\ loads' = [loads EXCEPT ![l] = done]
                  /\ cache' = cache
             ELSE /\ cache' = Loaded(CacheSetImageSpec(cache, x.image, r.spec),
                                     x.image, r.spec)
                  /\ loads' = [loads EXCEPT ![l] =
                                  IF x.name \notin DOMAIN r.spec THEN done
                                  ELSE [done EXCEPT !.ret = "tool"]]
    /\ UNCHANGED <<passes, probes>>
    /\ DiscFrame

----------------------------------------------------------------------------
(* The MCP server over HTTP *)

\* viper.GetString("secret"), and another secret
Secret == "s1"
Secrets == {"s1", "s2"}

\* A signed token: who it names, the secret it was signed with, and whether
\* it is still valid in time
JWT(user, secret, life) == <<"jwt", user, secret, life>>

\* The values of the Authorization header of a request; <<>> is no header.
\* A header is the sequence of its pieces, the scheme with its blank first.
Headers ==
    {<<>>, <<"Bearer ">>, <<"Basic ", "creds">>, <<"Bearer ", "garbage">>,
     JWT("alice", Secret, "live"),
     <<"bearer ">> \o JWT("alice", Secret, "live")}
    \cup {<<"Bearer ">> \o JWT("alice", secret, life) :
             secret \in Secrets, life \in {"live", "expired"}}

Configs == [AuthRequired : BOOLEAN, InsecureNoAuth : BOOLEAN]

\* auth.GetAdminCredentials: the administrator, or an error
AdminLookups == {[UserID |-> "root", err |-> Nil], [UserID |-> NoUser, err |-> <<"no admin">>]}

\* auth.ValidateJWT
ValidateJWT(token, secret) ==
    IF Len(token) = 4 /\ token[1] = "jwt" /\ token[3] = secret /\ token[4] = "live"
    THEN [userID |-> token[2], err |-> Nil]
    ELSE [userID |-> NoUser, err |-> <<"invalid token">>]

TrimPrefixKept(str, prefix) == str

\* strings.TrimPrefix
TrimPrefix(str, prefix) ==
    IF str # <<>> /\ Head(str) = prefix THEN Tail(str) ELSE str

\* Server.authenticateHTTP
authenticateHTTP(cfg, authHeader, admin) ==
    IF ~cfg.AuthRequired \/ cfg.InsecureNoAuth
    THEN IF admin.err # Nil THEN [userID |-> NoUser, ok |-> FALSE]
         ELSE [userID |-> admin.UserID, ok |-> TRUE]
    ELSE LET token == TrimPrefix(authHeader, "Bearer ")
         IN  IF token = <<>> \/ token = authHeader THEN [userID |-> NoUser, ok |-> FALSE]
             ELSE LET v == ValidateJWT(token, Secret)
                  IN  IF v.err # Nil THEN [userID |-> NoUser, ok |-> FALSE]
                      ELSE [userID |-> v.userID, ok |-> TRUE]

McpFrame ==
    UNCHANGED <<runs, nextId, applied, execs, reqs, cache, crashed, fs, discVars>>

\* mcp.NewServer(svc, cfg)
NewServer(cfg) ==
    /\ ~mcp.built
    /\ mcp' = [mcp EXCEPT !.built = TRUE, !.cfg = cfg]
    /\ McpFrame

\* The handler of Server.HTTPHandler on one request: 401, or the request is
\* handed to the MCP server, whose context function authenticates it again
\* for the user id
HTTPHandler(authHeader) ==
    /\ mcp.built
    /\ Len(mcp.answered) < MaxHttp
    /\ \E admin \in AdminLookups :
         LET a == authenticateHTTP(mcp.cfg, authHeader, admin)
         IN  mcp' = [mcp EXCEPT !.answered =
                        Append(@, [header |-> authHeader,
                                   code |-> IF a.ok THEN 200 ELSE 401,
                                   served |-> a.ok,
                                   userID |-> IF a.ok THEN a.userID ELSE NoUser])]
    /\ McpFrame

----------------------------------------------------------------------------
(* The specification *)

Next ==
    \/ \E e \in ExecIds :
         \/ RT_NewClient(e)
         \/ RT_ResolveMode(e)
         \/ RT_Create(e)
         \/ RT_Start(e)
         \/ RT_Wait(e)
         \/ RT_Logs(e)
         \/ RT_Copy(e)
         \/ RT_Files(e)
         \/ RT_Final(e)
    \/ \E user \in Callers, payload \in Payloads :
         \/ ValidateAndCreateRun(user, payload)
         \/ CreateAndStartRun(user, payload)
    \/ \E user \in Callers, id \in RunIds :
         \/ StartRun(user, id)
         \/ \E handler \in Handlers : RunMiddleware(user, id, handler)
    \/ \E q \in ReqIds :
         \/ StartRunRead(q)
         \/ DeleteRun(q)
    \/ ReadAllTools

Spec == Init /\ [][Next]_vars

\* Discovery on its own: the passes of ReadAllTools with their probe
\* goroutines, and LoadToolSpec, on the one cache.
DiscNext ==
    \/ \E p \in PassIds :
         \/ RAT_Start(p)
         \/ RAT_Collect(p)
         \/ RAT_Done(p)
    \/ \E p \in PassIds, tag \in imagesWithTags :
         \/ Probe_Check(p, tag)
         \/ Probe_Store(p, tag)
         \/ Probe_Insert(p, tag)
         \/ Probe_Send(p, tag)
    \/ \E l \in LoadIds :
         \/ \E slug \in LoadSlugs : Load_Start(l, slug)
         \/ Load_Detect(l)

DiscSpec == Init /\ [][DiscNext]_vars

\* The MCP server on its own
McpNext ==
    \/ \E cfg \in Configs : NewServer(cfg)
    \/ \E authHeader \in Headers : HTTPHandler(authHeader)

McpSpec == Init /\ [][McpNext]_vars

\* tool.RunTool called on its own, with or without a command override: no
\* caller in the repository sets opt.Cmd, so these executions are launched
\* on the runs that ValidateAndCreateRun has created
CallRunTool(user, id, cmd) ==
    /\ ~crashed
    /\ HasRow(runs, id)
    /\ \E e \in ExecIds :
         /\ FreeExec(e)
         /\ execs' = [Launched(e, user, FromDBRun(runs[id])) EXCEPT ![e].cmd = cmd]
    /\ UNCHANGED <<runs, nextId, applied, reqs, cache, crashed, fs, discVars, mcp>>

EngineNext ==
    \/ \E e \in ExecIds :
         \/ RT_NewClient(e)
         \/ RT_ResolveMode(e)
         \/ RT_Create(e)
         \/ RT_Start(e)
         \/ RT_Wait(e)
         \/ RT_Logs(e)
         \/ RT_Copy(e)
         \/ RT_Files(e)
         \/ RT_Final(e)
    \/ \E user \in Callers, payload \in Payloads : ValidateAndCreateRun(user, payload)
    \/ \E user \in Users, id \in RunIds, cmd \in BOOLEAN : CallRunTool(user, id, cmd)
    \/ ReadAllTools

EngineSpec == Init /\ [][EngineNext]_vars

----------------------------------------------------------------------------
(* Properties of the run engine *)

Terminal == {"finished", "errored"}

\* Execution e returns in this step.
Returns(e) == execs[e].pc \notin {"idle", "done"} /\ execs'[e].pc = "done"

\* Execution e returns in this step and its container had exited with this code.
ReturnsAfterExit(e, codes) ==
    /\ execs[e].pc \in {"logs", "copy", "files", "final"}
    /\ execs[e].exitCode \in codes
    /\ execs'[e].pc = "done"

\* Execution e applies its final transition in this step.
FinalTransition(e, codes) ==
    /\ execs[e].pc = "final"
    /\ execs[e].exitCode \in codes
    /\ execs'[e].pc = "done"

\* C1: whenever an execution of RunTool that was entered on a pending run
\* returns, the run's row is in a terminal state (finished or errored).
C1_TerminalOnReturn ==
    [][\A e \in ExecIds :
         (Returns(e) /\ execs[e].fromPending /\ HasRow(runs', execs[e].tool.ID))
            => runs'[execs[e].tool.ID].status \in Terminal]_vars

LogFailureOutcome(e) ==
    LET id == execs[e].tool.ID
    IN  /\ execs'[e].ret = DockerErr("stdcopy")
           => /\ HasRow(runs', id)
              /\ runs'[id].status = "errored"
              /\ runs'[id].has_errored
              /\ runs'[id].finished_at # Null
              /\ runs'[id].error_message
                    = NullString(ErroredMessage(execs[e].tool, DockerErr("stdcopy")))
        /\ execs'[e].ret = DockerErr("logs") => runs' = runs
        /\ execs'[e].ret \in {DockerErr("stdcopy"), DockerErr("logs")}

C4_TerminalIsFinal ==
    [][\A id \in DOMAIN runs :
         (runs[id].status \in Terminal /\ HasRow(runs', id))
            => runs'[id].status = runs[id].status]_vars

\* C6: an execution that has returned an error has applied exactly one
\* terminal transition, and no execution applies more than one.
C6_OneTerminalPerFailure ==
    \A e \in ExecIds :
        execs[e].pc = "done"
            => /\ execs[e].terminals <= 1
               /\ execs[e].ret # Nil => execs[e].terminals = 1

\* C10: on every row, started_at is unset until a transition to running has
\* been applied, finished_at until a terminal transition has been applied, and
\* error_message and has_errored until an errored transition has been applied.
C10_UnsetUntilTransition ==
    \A id \in DOMAIN runs :
        /\ runs[id].started_at # Null => "running" \in applied[id]
        /\ runs[id].finished_at # Null => applied[id] \cap Terminal # {}
        /\ (runs[id].error_message.Valid \/ runs[id].has_errored)
              => "errored" \in applied[id]

C10_Witness ==
    \E id \in DOMAIN runs :
        /\ runs[id].status = "running" /\ runs[id].started_at # Null
        /\ applied[id] = {"running"}
        /\ runs[id].finished_at = Null
        /\ ~runs[id].has_errored /\ ~runs[id].error_message.Valid

----------------------------------------------------------------------------
(* Properties of the service layer and the handlers *)

Plain == Users \ Admins

\* The runs that the get and list operations hand to a caller.
Shown(rs, user) ==
    UNION ({GetRunDetail(rs, user, id).out : id \in RunIds}
           \cup {ListRunResults(rs, user, id).out : id \in RunIds}
           \cup {GetResultFile(rs, user, id).out : id \in RunIds}
           \cup {Admitted(rs, user, id).out : id \in RunIds}
           \cup {GetAllRuns(rs, user, f).out : f \in StatusFilters})

\* C5: no get or list operation hands a caller who is not an administrator a
\* run of another user (this includes the status snapshot of StartRun), and a
\* row disappears only in a DeleteRun of its owner or of an administrator.
C5_Isolation ==
    /\ [](\A user \in Plain :
            /\ \A t \in Shown(runs, user) : HasRow(runs, t.ID) /\ runs[t.ID].user_id = user
            /\ \A q \in ReqIds :
                 (reqs[q].stage = "read" /\ reqs[q].user = user
                    /\ StartRunResult(runs, reqs[q]).err = Nil
                    /\ HasRow(runs, StartRunResult(runs, reqs[q]).run.ID))
                   => runs[StartRunResult(runs, reqs[q]).run.ID].user_id = user)
    /\ [][\A id \in DOMAIN runs :
            ~HasRow(runs', id)
               => \E q \in ReqIds :
                    /\ reqs[q].op = "DeleteRun" /\ reqs'[q].op = "none"
                    /\ reqs[q].tool.ID = id
                    /\ (IsAdmin(reqs[q].user) \/ runs[id].user_id = reqs[q].user)]_vars

\* a finished run of alice that bob can neither get, list nor have admitted for a delete
C5_Witness ==
    \E id \in DOMAIN runs :
        /\ runs[id].user_id = "alice" /\ runs[id].status = "finished"
        /\ GetRunDetail(runs, "bob", id).err = ErrNoRows
        /\ GetAllRuns(runs, "bob", "finished").out = {}
        /\ Admitted(runs, "bob", id).err = ErrNoRows
        /\ GetRunDetail(runs, "alice", id).out # {}

\* C7: a row that ValidateAndCreateRun inserts is pending, with started_at and
\* finished_at unset and has_errored false, and so is the tool made from it.
C7_CreatedPending ==
    [][\A id \in DOMAIN runs' \ DOMAIN runs :
         /\ runs'[id].status = "pending"
         /\ runs'[id].started_at = Null
         /\ runs'[id].finished_at = Null
         /\ ~runs'[id].has_errored
         /\ FromDBRun(runs'[id]).Status = "pending"
         /\ FromDBRun(runs'[id]).StartedAt = Null
         /\ FromDBRun(runs'[id]).FinishedAt = Null
         /\ ~FromDBRun(runs'[id]).HasErrored]_vars

C7_Witness ==
    \E id \in DOMAIN runs :
        /\ applied[id] = {} /\ runs[id].status = "pending"
        /\ \A e \in ExecIds : execs[e].pc = "idle"

\* The payload names a cached tool and lacks a parameter that the tool requires.
FailsValidation(c, payload) ==
    LET slug == Slug(payload.DockerImage, payload.ToolName)
    IN  /\ slug \in DOMAIN c.tools
        /\ ~(c.tools[slug].Required \subseteq payload.Parameters)

UnknownSlug(c, payload) == Slug(payload.DockerImage, payload.ToolName) \notin DOMAIN c.tools

\* C8: for a payload that fails validation ValidateAndCreateRun returns the
\* validation error with a non-empty error collection, for an unknown tool
\* slug it returns the not-found error, and in both cases no row is inserted.
C8_RejectedPayload ==
    /\ [](\A user \in Users, payload \in Payloads :
            LET slug == Slug(payload.DockerImage, payload.ToolName)
                v == Checked(cache, user, payload)
            IN  /\ FailsValidation(cache, payload)
                     => v.err = ErrValidation(slug) /\ v.errors # {}
                /\ UnknownSlug(cache, payload)
                     => v.err = ErrNotFoundTool(slug) /\ Contains(v.err, "not found"))
    /\ [][<<runs, nextId>>' # <<runs, nextId>> =>
            \A payload \in Payloads :
               FailsValidation(cache, payload) \/ UnknownSlug(cache, payload) =>
                  \A user \in Users :
                     ~(ValidateAndCreateRun(user, payload) \/ CreateAndStartRun(user, payload))]_vars

\* the cache holds a tool, one payload fails its validation, another names an
\* unknown tool, and no row exists
C8_Witness ==
    /\ runs = <<>> /\ nextId = 1
    /\ \E payload \in Payloads :
         /\ FailsValidation(cache, payload)
         /\ Checked(cache, "alice", payload).errors = {"p"}
    /\ \E payload \in Payloads :
         /\ UnknownSlug(cache, payload)
         /\ Checked(cache, "alice", payload).err # Nil

\* C9: with an empty user id every run operation of the service returns the
\* unauthorized error, inserts no row, launches no execution and reads no run.
C9_EmptyUserRefused ==
    /\ [](/\ \A payload \in Payloads : Checked(cache, NoUser, payload).err = ErrUnauthorized
          /\ StartRunRefusal(NoUser) = ErrUnauthorized
          /\ \A id \in RunIds :
               /\ GetRunDetail(runs, NoUser, id) = [err |-> ErrUnauthorized, out |-> {}]
               /\ ListRunResults(runs, NoUser, id) = [err |-> ErrUnauthorized, out |-> {}]
               /\ GetResultFile(runs, NoUser, id) = [err |-> ErrUnauthorized, out |-> {}])
    /\ [][<<runs, nextId, execs, reqs>>' # <<runs, nextId, execs, reqs>>
            /\ applied' = applied /\ cache' = cache =>
            \A payload \in Payloads, id \in RunIds :
               ~(\/ ValidateAndCreateRun(NoUser, payload)
                 \/ CreateAndStartRun(NoUser, payload)
                 \/ StartRun(NoUser, id))]_vars

\* a run exists that the operations could create again, start and read, and
\* the empty user id gets none of it
C9_Witness ==
    \E id \in DOMAIN runs :
        /\ runs[id].status = "pending"
        /\ ENABLED StartRun(NoUser, id)
        /\ GetRunDetail(runs, NoUser, id).out = {}
        /\ GetRunDetail(runs, runs[id].user_id, id).out # {}
        /\ cache.tools # <<>>

----------------------------------------------------------------------------
(* Claims on discovery and the cache *)

\* C11: the detection procedure (the throwaway probe containers of
\* readToolSpec) runs at most once per image reference, whoever probes the
\* image: a later pass, a concurrent pass or LoadToolSpec.
C11_DetectedOnce == \A image \in imagesWithTags : detected[image] <= 1

\* The slugs of the tools that the tagged images declare
Declared ==
    UNION {{Slug(image, name) : name \in DOMAIN ImageSpecFile(image)} :
              image \in {i \in imagesWithTags : Embeds(i)}}

\* C12: when a discovery pass has completed with its slug list, the cache
\* holds exactly one tool entry per declared tool per tagged image: none
\* missing and none extra, whatever the interleaving of the goroutines.
C12_OneEntryPerTool ==
    \A p \in PassIds :
        passes[p].pc = "done" /\ passes[p].ret = "slugs" => DOMAIN cache.tools = Declared

----------------------------------------------------------------------------
(* Service.ListToolSpecs *)

\* The characters of the names and titles of the tools
Chars(str) ==
    CASE str = "t1" -> <<"t", "1">>
      [] str = "t2" -> <<"t", "2">>
      [] str = "Echo" -> <<"E", "c", "h", "o">>
      [] str = "Sum" -> <<"S", "u", "m">>
      [] str = "Chop" -> <<"C", "h", "o", "p">>
      [] OTHER -> <<>>

\* The filters of a request, as characters
Filters ==
    {<<>>, <<"o">>, <<"c", "h">>, <<"C", "H">>, <<"T", "1">>, <<"s", "U">>, <<"z">>,
     <<"h", "o", "p", "s">>}

LowerOf(ch) ==
    CASE ch = "C" -> "c" [] ch = "E" -> "e" [] ch = "H" -> "h" [] ch = "S" -> "s"
      [] ch = "T" -> "t" [] ch = "U" -> "u" [] OTHER -> ch

ToLowerKept(cs) == cs

\* strings.ToLower
ToLower(cs) == [i \in DOMAIN cs |-> LowerOf(cs[i])]

\* strings.Contains
HasSubstring(cs, substr) ==
    \E i \in 1..(Len(cs) + 1) :
        i + Len(substr) - 1 <= Len(cs) /\ SubSeq(cs, i, i + Len(substr) - 1) = substr

\* cache.ListToolSpecs: every cached tool spec
CacheListToolSpecs(c) == {c.tools[k] : k \in DOMAIN c.tools}

ListToolSpecs(c, filter) ==
    LET specs == CacheListToolSpecs(c)
        needle == ToLower(filter)
    IN  IF filter = <<>> THEN specs
        ELSE {spec \in specs : \/ HasSubstring(ToLower(Chars(spec.Name)), needle)
                                \/ HasSubstring(ToLower(Chars(spec.Title)), needle)}

\* filter occurs in the characters cs at some offset, letter case set aside
OccursIn(cs, filter) ==
    \E off \in 0..Len(cs) :
        /\ off + Len(filter) <= Len(cs)
        /\ \A j \in 1..Len(filter) : LowerOf(cs[off + j]) = LowerOf(filter[j])

\* C13: with a non-empty filter ListToolSpecs returns exactly the cached specs
\* whose name or title contains the filter as a substring, letter case set
\* aside; with the empty filter it returns every cached spec.
C13_FilterByNameOrTitle ==
    /\ ListToolSpecs(cache, <<>>) = {cache.tools[k] : k \in DOMAIN cache.tools}
    /\ \A filter \in Filters \ {<<>>} :
         ListToolSpecs(cache, filter) =
            {cache.tools[k] : k \in {s \in DOMAIN cache.tools :
                                        \/ OccursIn(Chars(cache.tools[s].Name), filter)
                                        \/ OccursIn(Chars(cache.tools[s].Title), filter)}}

\* the cache holds several specs, two filters with capitals pick one of them by
\* its title, another picks one by its name, and a fourth picks none
C13_Witness ==
    /\ Cardinality(ListToolSpecs(cache, <<>>)) >= 2
    /\ \E spec \in ListToolSpecs(cache, <<"s", "U">>) : spec.Title = "Sum"
    /\ Cardinality(ListToolSpecs(cache, <<"C", "H">>)) = 1
    /\ \E spec \in ListToolSpecs(cache, <<"T", "1">>) : spec.Title = "Echo"
    /\ ListToolSpecs(cache, <<"z">>) = {}

----------------------------------------------------------------------------
(* Claims on the deletion of a run *)

\* C14: deleting a run that has the input mount /in removes the subtree of the
\* parent directory of that mount's host path, and nothing else of the file
\* system, and removes the run's row; deleting a run without the input mount
\* removes the row and leaves the file system as it is.
C14_DeleteFrame ==
    [][\A q \in ReqIds :
          DeleteRun(q) =>
             LET t == reqs[q].tool
                 below(path) == Len(path) >= 2 /\ path[1] = "mounts" /\ path[2] = ToString(t.ID)
             IN  /\ t.ID \notin DOMAIN runs'
                 /\ \A id \in DOMAIN runs : id # t.ID => id \in DOMAIN runs' /\ runs'[id] = runs[id]
                 /\ "/in" \notin t.Mounts => fs' = fs
                 /\ "/in" \in t.Mounts /\ "RemoveAllErr" \notin applied'[t.ID]
                       => fs' = {path \in fs : ~below(path)}]_vars

\* a run with the input mount has been deleted: its row is gone, so are its
\* directory and the mounts below it, and the mount base is still there
C14_Witness ==
    \E id \in RunIds :
        /\ {"DeleteRun", "RemoveAll"} \subseteq applied[id]
        /\ "RemoveAllErr" \notin applied[id]
        /\ id \notin DOMAIN runs
        /\ id < nextId
        /\ fs = {MountBase}

----------------------------------------------------------------------------
(* Claims on the discovery pass *)

\* C15: when the probe of a tagged image fails on a call of the runtime
\* (creating, starting or waiting on a probe container), the pass fails as a
\* whole: it does not return a slug list.
C15_RuntimeErrorFails ==
    \A p \in PassIds :
        passes[p].pc = "done" /\ passes[p].ret = "slugs"
            => \A tag \in imagesWithTags : probes[<<p, tag>>].fault # "runtime"

\* C16: an image without an embedded specification is skipped without error.
\* Its probe reports no slugs and no error and inserts nothing, the cache
\* holds no entry for the image, and a pass whose other probes report returns
\* their slugs.
C16_SpeclessSkipped ==
    /\ \A p \in PassIds, tag \in imagesWithTags :
         probes[<<p, tag>>].fault = "nospec"
            => /\ probes[<<p, tag>>].pc \in {"send", "done"}
               /\ probes[<<p, tag>>].tools = {}
               /\ probes[<<p, tag>>].err = Nil
               /\ \A res \in passes[p].buf : res.tag = tag => res.tools = {} /\ res.err = Nil
    /\ \A tag \in imagesWithTags :
         ~Embeds(tag) => /\ tag \notin DOMAIN cache.images
                         /\ \A slug \in DOMAIN cache.tools : slug[1] # tag
    /\ \A p \in PassIds :
         passes[p].pc = "done" /\ passes[p].ret = "slugs"
            => passes[p].tools = UNION {probes[<<p, tag>>].tools : tag \in imagesWithTags}

\* a pass has returned the slug of img2's tool and no error, img1's probe having
\* found no specification
C16_Witness ==
    \E p \in PassIds :
        /\ passes[p].pc = "done" /\ passes[p].ret = "slugs" /\ passes[p].err = Nil
        /\ probes[<<p, "img1">>].fault = "nospec"
        /\ passes[p].tools = {Slug("img2", "t1")}
        /\ Slug("img2", "t1") \in DOMAIN cache.tools

\* Pass p returns in this step.
PassReturns(p) == passes[p].pc = "collect" /\ passes'[p].pc = "done"

\* Every probe goroutine of pass p has sent its result and the pass has taken it.
AllReported(p) ==
    /\ \A tag \in imagesWithTags : probes[<<p, tag>>].pc = "done"
    /\ passes[p].buf = {}
    /\ passes[p].got = Cardinality(imagesWithTags)

\* C17: a pass returns a slug list only after every one of its probes has
\* reported; the flag Initialised of the cache becomes true only in the return
\* of a pass whose probes have all reported without error; a pass that ends
\* by an error or by cancellation leaves the flag as it was.
C17_InitialisedAfterFullPass ==
    /\ [](\A p \in PassIds : passes[p].pc = "done" /\ passes[p].ret = "slugs" => AllReported(p))
    /\ [][cache'.Initialised # cache.Initialised
            => /\ cache'.Initialised
               /\ \E p \in PassIds :
                    /\ PassReturns(p) /\ passes'[p].ret = "slugs"
                    /\ \A tag \in imagesWithTags :
                         probes'[<<p, tag>>].pc = "done" /\ probes'[<<p, tag>>].err = Nil]_vars
    /\ [][\A p \in PassIds :
            PassReturns(p) /\ passes'[p].ret = "error"
                => cache'.Initialised = cache.Initialised]_vars

\* one pass has returned its slugs and set the flag, another has ended by an
\* error after it had started its probes
C17_Witness ==
    \E p \in PassIds, d \in PassIds :
        /\ passes[p].pc = "done" /\ passes[p].ret = "slugs" /\ AllReported(p)
        /\ passes[d].pc = "done" /\ passes[d].ret = "error"
        /\ \E tag \in imagesWithTags : probes[<<d, tag>>].pc # "none"
        /\ cache.Initialised

\* The probe goroutine of pass p for tag has been started and has not ended.
Outstanding(p, tag) == probes[<<p, tag>>].pc \notin {"none", "done"}

\* C18: when the context is cancelled while probes are outstanding, the pass
\* returns the context's error without waiting for them; every outstanding
\* probe goroutine can still take its next step, its send never blocks, and it
\* may still insert into the cache.
C18_CancelLeavesProbesRunning ==
    /\ [](\A p \in PassIds :
            /\ passes[p].pc = "collect" => ENABLED RAT_Done(p)
            /\ \A tag \in imagesWithTags :
                 /\ probes[<<p, tag>>].pc = "send" => ENABLED Probe_Send(p, tag)
                 /\ Outstanding(p, tag)
                      => ENABLED (\/ Probe_Check(p, tag) \/ Probe_Store(p, tag)
                                  \/ Probe_Insert(p, tag) \/ Probe_Send(p, tag)))
    /\ [][\A p \in PassIds :
            RAT_Done(p) => /\ passes'[p].ret = "error" /\ passes'[p].err = ErrCanceled
                           /\ probes' = probes /\ cache' = cache]_vars

\* a pass has returned the context's error while one of its probes is about
\* to insert a tool and another has not yet looked at the cache
C18_Witness ==
    \E p \in PassIds :
        /\ passes[p].pc = "done" /\ passes[p].err = ErrCanceled
        /\ \E tag \in imagesWithTags :
             probes[<<p, tag>>].pc = "insert" /\ ENABLED Probe_Insert(p, tag)
        /\ \E tag \in imagesWithTags : probes[<<p, tag>>].pc = "check"

----------------------------------------------------------------------------
(* Claims on the containers and the log streams *)

\* As many containers removed as created, as many streams closed as opened
Balanced(t) == t.created = t.removed /\ t.opened = t.closed

\* Every function of toolImage that runs throwaway containers has, when it
\* returns, issued a remove for each container it created and closed each log
\* stream it opened, whatever the runtime did.
ProbesCleanUp ==
    /\ \A run \in CommandRuns : Balanced(runContainerCommand(run))
    /\ \A image \in imagesWithTags, env \in ReadEnvs :
         Balanced(Tally(readToolSpec(image, env).cs))
    /\ \A image \in imagesWithTags, path \in CitationPaths :
         Balanced(readToolCitation(image, path))

\* C19: every container that was created, by a run execution or by a probe
\* (shim detection, shim sub-invocation, spec read, citation read), has a
\* remove issued for it before the function that created it returns, on every
\* path; and every log stream that was opened is closed.
C19_CleanedUp ==
    /\ [][\A e \in ExecIds :
            Returns(e) => /\ execs'[e].cont \in {"none", "removed"}
                          /\ execs'[e].logs \in {"none", "closed"}]_vars
    /\ []ProbesCleanUp

\* an execution has returned after its container was created and its log
\* stream opened, and a readToolSpec has run five containers: the shim
\* detection, three sub-invocations and cat
C19_Witness ==
    /\ \E e \in ExecIds :
         execs[e].pc = "done" /\ execs[e].cont = "removed" /\ execs[e].logs = "closed"
    /\ \E env \in ReadEnvs : Tally(readToolSpec("img2", env).cs).created = 5
    /\ \E run \in CommandRuns :
         runContainerCommand(run).created = 1 /\ runContainerCommand(run).err # Nil

----------------------------------------------------------------------------
(* Claims on the entries of the cache *)

\* C20: a tool entry of the cache is never changed after its first insertion:
\* for every slug the cached value, its citation included, stays the same
\* through all later steps of discovery.
C20_EntryNeverChanges ==
    [][\A slug \in DOMAIN cache.tools :
          slug \in DOMAIN cache'.tools /\ cache'.tools[slug] = cache.tools[slug]]_vars

----------------------------------------------------------------------------
(* Claims on the MCP server *)

\* The header is Bearer, a blank and a token that names a user, is signed
\* with the configured secret and has not expired.
BearerOfSecret(header) ==
    /\ Len(header) = 5
    /\ header[1] = "Bearer " /\ header[2] = "jwt"
    /\ header[4] = Secret /\ header[5] = "live"

\* C21: with authentication required and not disabled, the HTTP handler hands
\* a request to the MCP server if and only if its Authorization header is
\* Bearer <token> with a token that validates against the configured secret;
\* every other request is answered 401 and does not reach the MCP server.
C21_BearerOrRefused ==
    mcp.cfg.AuthRequired /\ ~mcp.cfg.InsecureNoAuth
        => \A i \in DOMAIN mcp.answered :
              LET r == mcp.answered[i]
              IN  /\ r.served <=> BearerOfSecret(r.header)
                  /\ ~r.served => r.code = 401
                  /\ r.served => r.code # 401 /\ r.userID = r.header[3]

\* with authentication required, one request with a valid bearer token has
\* been served and one with a token signed with another secret refused
C21_Witness ==
    /\ mcp.cfg.AuthRequired /\ ~mcp.cfg.InsecureNoAuth
    /\ \E i \in DOMAIN mcp.answered : mcp.answered[i].served
    /\ \E i \in DOMAIN mcp.answered :
         /\ mcp.answered[i].header = <<"Bearer ">> \o JWT("alice", "s2", "live")
         /\ mcp.answered[i].code = 401

----------------------------------------------------------------------------
(* Claims on the errors of the service *)

\* The classes an error of the service falls in; internal is what is left
Classes(err) ==
    {c \in {"unauthorized", "validation", "not-found"} :
        \/ c = "unauthorized" /\ IsUnauthorized(err)
        \/ c = "validation" /\ IsValidationError(err)
        \/ c = "not-found" /\ IsNotFound(err)}

\* C22: every error of a service operation falls in exactly one of the
\* classes unauthorized, validation, not-found and internal, and the error
\* for an unknown run or an unknown tool slug is classified not-found.
C22_ErrorsClassified ==
    /\ \A user \in Callers, id \in RunIds :
         LET err == GetRunDetail(runs, user, id).err
         IN  /\ err # Nil => Cardinality(Classes(err)) <= 1
             /\ Authorized(user) /\ ~HasRow(runs, id) => IsNotFound(err)
    /\ \A user \in Callers, payload \in Payloads :
         LET err == Checked(cache, user, payload).err
         IN  /\ err # Nil => Cardinality(Classes(err)) <= 1
             /\ Authorized(user) /\ UnknownSlug(cache, payload) => IsNotFound(err)

----------------------------------------------------------------------------
(* Claims on the steps of one execution *)

BeforeStart == {"client", "mode", "create", "start"}
AfterStart == {"wait", "logs", "copy", "files", "final"}

\* C23 as stated: one execution persists the transition to running twice,
\* once on entry before the container is created and once after the
\* container has started.
C23_RunningTwice ==
    \A e \in ExecIds :
        /\ execs[e].pc \in {"create", "start"} => execs[e].started = 1
        /\ execs[e].pc \in AfterStart => execs[e].started = 2

\* C23 as amended: one execution persists the transition to running once and
\* only after its container has started: none before the start succeeded,
\* exactly one from then on, never two.
C23_RunningOnce ==
    \A e \in ExecIds :
        /\ execs[e].started <= 1
        /\ execs[e].pc \in BeforeStart => execs[e].started = 0
        /\ execs[e].pc \in AfterStart =>
             execs[e].started = 1 /\ execs[e].cont = "created"
        /\ execs[e].started = 1 => execs[e].cont \in {"created", "removed"}

C23_Witness ==
    \E e \in ExecIds :
        /\ execs[e].pc = "done" /\ execs[e].ret = Nil
        /\ execs[e].started = 1 /\ execs[e].terminals = 1

\* The row of the run that execution e works on is pending and unstamped
PendingRow(rs, e) ==
    /\ HasRow(rs, execs[e].tool.ID)
    /\ rs[execs[e].tool.ID].status = "pending"
    /\ rs[execs[e].tool.ID].started_at = Null

\* Execution e returns in this step from the shim probe, the container
\* creation or the container start
FailsBeforeRunning(e) ==
    execs[e].pc \in {"mode", "create", "start"} /\ execs'[e].pc = "done"

BecomesRunning(id) ==
    /\ HasRow(runs, id) /\ HasRow(runs', id)
    /\ \/ runs[id].status # "running" /\ runs'[id].status = "running"
       \/ runs'[id].started_at # runs[id].started_at

\* C24: an execution before its start step has applied no transition to
\* running, and a row no execution has made running is pending or errored
\* with no started_at; a row becomes running, and gets its started_at, only
\* in the step of
\* an execution whose container has been created and has just started; an
\* execution that found its row pending and fails in the shim probe, the
\* container creation or the container start takes the row from pending to
\* errored, and the row has never been running.
C24_RunningOnlyAfterStart ==
    /\ [](\A e \in ExecIds :
            execs[e].pc \in BeforeStart =>
               /\ execs[e].started = 0
               /\ HasRow(runs, execs[e].tool.ID)
                    /\ "running" \notin applied[execs[e].tool.ID]
                  => /\ runs[execs[e].tool.ID].status \in {"pending", "errored"}
                     /\ runs[execs[e].tool.ID].started_at = Null)
    /\ [][/\ \A id \in RunIds :
               BecomesRunning(id) =>
                 \E e \in ExecIds :
                    /\ execs[e].tool.ID = id
                    /\ execs[e].pc = "start" /\ execs[e].cont = "created"
                    /\ execs'[e].pc = "wait"
          /\ \A e \in ExecIds :
               FailsBeforeRunning(e) /\ PendingRow(runs, e) /\ ~crashed' =>
                 /\ runs'[execs[e].tool.ID].status = "errored"
                 /\ runs'[execs[e].tool.ID].started_at = Null
                 /\ "running" \notin applied'[execs[e].tool.ID]
                 /\ execs'[e].started = 0]_vars

C24_Witness ==
    \E e \in ExecIds :
        /\ execs[e].pc = "done" /\ execs[e].fromPending
        /\ execs[e].ret = DockerErr("start") /\ execs[e].cont = "removed"
        /\ HasRow(runs, execs[e].tool.ID)
        /\ runs[execs[e].tool.ID].status = "errored"
        /\ runs[execs[e].tool.ID].started_at = Null
        /\ "running" \notin applied[execs[e].tool.ID]

\* The errors of the container runtime that end an execution at a step
StepErrors(pc) ==
    CASE pc = "create" -> {DockerErr("create")}
      [] pc = "start" -> {DockerErr("start")}
      [] pc = "wait" -> {DockerErr("wait"), <<"wait status error">>}
      [] pc = "copy" -> {DockerErr("stdcopy")}
      [] OTHER -> {}

EndsWith(msg, err) ==
    Len(msg) >= Len(err) /\ SubSeq(msg, Len(msg) - Len(err) + 1, Len(msg)) = err

\* C25: an execution that returns from a failed container creation, start,
\* wait (error channel or wait status with an error) or log demultiplexing
\* has applied exactly one errored transition in that step, the persisted
\* message holds the text of the runtime's error, and the execution returns
\* that error.
C25_RuntimeFailureErrored ==
    [][\A e \in ExecIds :
         execs[e].pc \in {"create", "start", "wait", "copy"} /\ execs'[e].pc = "done"
         => LET id == execs[e].tool.ID
            IN  /\ execs'[e].ret \in StepErrors(execs[e].pc)
                /\ execs'[e].terminals = execs[e].terminals + 1
                /\ execs'[e].terminals = 1
                /\ HasRow(runs', id)
                /\ runs'[id].status = "errored"
                /\ runs'[id].has_errored
                /\ runs'[id].error_message.Valid
                /\ EndsWith(runs'[id].error_message.String, execs'[e].ret)
                /\ "errored" \in applied'[id]]_vars

C25_Witness ==
    \E e \in ExecIds :
        /\ execs[e].pc = "done" /\ execs[e].ret = <<"wait status error">>
        /\ execs[e].terminals = 1
        /\ HasRow(runs, execs[e].tool.ID)
        /\ runs[execs[e].tool.ID].status = "errored"
        /\ Contains(runs[execs[e].tool.ID].error_message.String, "wait status error")

\* The row's message is that of an exit with a non-zero code
ExitMessage(row) ==
    /\ row.error_message.Valid
    /\ \E mode \in {"default", "gotap"}, code \in ExitCodes \ {0} :
         EndsWith(row.error_message.String, ExitErr(mode, code))

\* The row is in a state only the final transition gives it
AfterFinal(row) ==
    row.status = "finished" \/ (row.status = "errored" /\ ExitMessage(row))

LogsWritten(id) ==
    \A name \in LogFiles : Append(HostPath(id, "/out"), name) \in fs

ValidMetadata == NullString(<<"{\"ok\":true}">>)

Outcome(row) == [status |-> row.status, has_errored |-> row.has_errored,
                 error_message |-> row.error_message, finished_at |-> row.finished_at,
                 started_at |-> row.started_at]

\* C27: the metadata step changes nothing of a run but its metadata and never
\* ends the execution; the final transition that follows it depends on the
\* exit code alone (finished for 0, errored otherwise), whatever the step
\* found; and a row gets metadata only from the step of an execution with an
\* output mount that read the file and found it valid.
C27_MetadataNeverDecides ==
    /\ [](\A id \in DOMAIN runs :
            runs[id].gotap_metadata.Valid =>
              "/out" \in runs[id].mounts /\ runs[id].gotap_metadata = ValidMetadata)
    /\ [][/\ \A e \in ExecIds :
               execs[e].pc = "files" /\ execs'[e] # execs[e] =>
                 LET id == execs[e].tool.ID
                 IN  /\ execs'[e] = [execs[e] EXCEPT !.pc = "final", !.meta = execs'[e].meta]
                     /\ crashed' = crashed
                     /\ DOMAIN runs' = DOMAIN runs
                     /\ HasRow(runs, id) => Outcome(runs'[id]) = Outcome(runs[id])
                     /\ execs'[e].meta # "none" <=> "/out" \in execs[e].tool.Mounts
          /\ \A e \in ExecIds :
               execs[e].pc = "final" /\ execs'[e].pc = "done" =>
                 LET id == execs[e].tool.ID
                 IN  IF execs[e].exitCode = 0
                     THEN runs'[id].status = "finished" /\ execs'[e].ret = Nil
                     ELSE /\ runs'[id].status = "errored"
                          /\ execs'[e].ret = ExitErr(execs[e].runMode, execs[e].exitCode)
          /\ \A id \in DOMAIN runs \cap DOMAIN runs' :
               runs'[id].gotap_metadata # runs[id].gotap_metadata =>
                 \E e \in ExecIds :
                    /\ execs[e].tool.ID = id /\ execs[e].pc = "files"
                    /\ "/out" \in execs[e].tool.Mounts
                    /\ execs'[e].meta = "saved"]_vars

C27_Witness ==
    \E e \in ExecIds :
        LET id == execs[e].tool.ID
        IN  /\ execs[e].pc = "done" /\ execs[e].meta = "unsaved"
            /\ execs[e].exitCode = 0 /\ execs[e].ret = Nil
            /\ HasRow(runs, id) /\ runs[id].status = "finished"
            /\ ~runs[id].gotap_metadata.Valid

ShimPath == <<"/usr/bin/gotap">>

\* C28: an execution that goes on to create its container with a command
\* override has not probed the image, runs in default mode and has the
\* override as its command, with no entrypoint; one without an override has
\* probed the image and, when the shim was found, runs in gotap mode with the
\* shim's path as the only entrypoint and the shim's run command for the
\* tool, and when it was absent in default mode with neither set.
C28_RunModeResolved ==
    \A e \in ExecIds :
        LET x == execs[e]
        IN  x.pc \in {"create", "start"} \cup AfterStart =>
              /\ x.cmd => /\ x.probed = "no" /\ x.runMode = "default"
                          /\ x.config = [Entrypoint |-> <<>>, Cmd |-> CustomCmd]
              /\ ~x.cmd => x.probed \in {"found", "absent"}
              /\ x.probed = "found" =>
                   /\ x.runMode = "gotap"
                   /\ x.config.Entrypoint = <<ShimPath>>
                   /\ x.config.Cmd = <<"run", x.tool.Name, "--input-file", "/in/inputs.json",
                                       "--spec-file", "/src/tool.yml",
                                       "--output-folder", "/out">>
              /\ x.probed = "absent" =>
                   x.runMode = "default" /\ x.config = [Entrypoint |-> <<>>, Cmd |-> <<>>]

C28_Witness ==
    \E e \in ExecIds :
        /\ execs[e].pc = "final" /\ execs[e].cmd
        /\ execs[e].probed = "no" /\ execs[e].runMode = "default"
        /\ execs[e].config.Cmd = CustomCmd

----------------------------------------------------------------------------
(* Claims on the probe of an image *)

\* The runs a sub-invocation of the shim can meet, the shim printing the file
\* in its own layout
ShimAnswers == ShimSubRuns \cup {[path |-> "ok", exitCode |-> 0, stdout |-> ShimText]}

ProbeEnvs ==
    {[probe |-> pr, shim |-> IF ProbeGotap(pr).found THEN sh ELSE <<>>, cat |-> ct] :
        pr \in CommandRuns, sh \in [1..3 -> ShimAnswers], ct \in SubRuns}

\* The run ends without error, with exit code 0 and a non-empty output that parses
Qualifies(run) ==
    /\ run.path = "ok" /\ run.exitCode = 0
    /\ TrimSpace(run.stdout) # <<>>
    /\ run.stdout \in {SpecText, ShimText}

\* The first sub-invocation that qualifies, 0 when none does
FirstQualifying(shim) ==
    IF \E i \in DOMAIN shim : Qualifies(shim[i])
    THEN CHOOSE i \in DOMAIN shim :
            Qualifies(shim[i]) /\ \A j \in 1..(i - 1) : ~Qualifies(shim[j])
    ELSE 0

\* When the shim is found, readToolSpec runs metadata, parse --spec-file
\* and parse <path> in this order up to the first that ends without error,
\* with exit code 0 and a non-empty output that parses, returns that output's
\* specification and runs neither a later sub-invocation nor cat; when no shim
\* is found or none qualifies it runs cat /src/tool.yml after them, where a
\* non-zero exit, an empty output or a content that does not parse gives the
\* error of an image with no specification.
ShimOrderThenCat ==
    \A image \in imagesWithTags, env \in ProbeEnvs :
        LET r == readToolSpec(image, env)
            g == ProbeGotap(env.probe)
            k == FirstQualifying(env.shim)
        IN  g.err = Nil =>
              IF g.found /\ k > 0
              THEN /\ r.err = Nil /\ r.spec = ImageSpecFile(image)
                   /\ r.tried = SubSeq(ShimCommands, 1, k)
                   /\ r.text = env.shim[k].stdout
                   /\ ~r.cat
                   /\ Len(r.cs) = 1 + k
              ELSE /\ r.cat
                   /\ r.tried = (IF g.found THEN ShimCommands ELSE <<>>)
                   /\ Len(r.cs) = 1 + Len(r.tried) + 1
                   /\ Qualifies(env.cat) =>
                        r.err = Nil /\ r.text = env.cat.stdout
                   /\ env.cat.path = "ok" /\ ~Qualifies(env.cat) =>
                        r.err # Nil /\ r.fault = "nospec" /\ r.spec = <<>>
                   /\ env.cat.path # "ok" => r.err # Nil /\ r.fault = "runtime"

\* C29: the specification probes of a discovery try the shim's
\* sub-invocations in the order metadata, parse --spec-file, parse <path>,
\* return the output of the first that qualifies without running the later
\* ones, and fall back to cat /src/tool.yml only when no shim is found or
\* none qualifies, where a non-zero exit, an empty output or a content that
\* does not parse means no specification.
C29_ShimOrderThenCat == cache.Initialised => ShimOrderThenCat

\* the first sub-invocation exits with 1, the second answers the file, the
\* third would have answered it too, for a discovery that has run
C29_Witness ==
    /\ cache.Initialised
    /\ \E env \in ProbeEnvs :
         /\ ProbeGotap(env.probe).found
         /\ env.shim[1].exitCode = 1
         /\ env.shim[2].stdout = ShimText /\ env.shim[3].stdout = SpecText
         /\ readToolSpec("img1", env).text = ShimText
         /\ readToolSpec("img1", env).tried = SubSeq(ShimCommands, 1, 2)

\* The tool of a specification as it is cached without citation data
Uncited(spec, tag, name) == [spec[name] EXCEPT !.ID = Slug(tag, name)]

\* C30: a probe never reports an error of the citation read; when the
\* specification of an image was read, the probe goes on to store it whatever
\* the citation read gave, and a probe whose citation read failed inserts the
\* image spec and every tool of it, the tools without citation data.
C30_CitationNeverFails ==
    /\ [](\A k \in DOMAIN probes :
            /\ probes[k].err \in {Nil, DockerErr("client")}
            /\ probes[k].pc = "check" =>
                 \A r \in SpecResults[k[2]], c \in CitationResults[k[2]] :
                    r.err = Nil /\ ~c.ok =>
                       Detect(probes[k], k[2], r, c) =
                          [probes[k] EXCEPT !.pc = "store", !.spec = r.spec])
    /\ [][\A k \in DOMAIN probes :
            LET x == probes[k]
                tag == k[2]
            IN  x.cit = NoCff /\ x.pc \in {"store", "insert"} /\ probes'[k] # x =>
                  /\ probes'[k].err = Nil
                  /\ x.pc = "store" =>
                       /\ tag \in DOMAIN cache'.images /\ cache'.images[tag] = x.spec
                       /\ probes'[k].todo = DOMAIN x.spec
                  /\ x.pc = "insert" =>
                       \E name \in x.todo :
                          /\ Slug(tag, name) \in DOMAIN cache'.tools
                          /\ cache'.tools[Slug(tag, name)] = Uncited(x.spec, tag, name)
                          /\ cache'.tools[Slug(tag, name)].Citation = NoCff
                          /\ probes'[k].todo = x.todo \ {name}
                          /\ probes'[k].tools = x.tools \cup {Slug(tag, name)}
                  /\ probes'[k].pc = "send" =>
                       probes'[k].tools = {Slug(tag, name) : name \in DOMAIN x.spec}]_vars

\* the first probe of img2 read the specification but no citation, and has
\* stored the image and inserted its tool
C30_Witness ==
    /\ passes[2].pc = "idle" /\ \A l \in LoadIds : loads[l].pc = "idle"
    /\ LET x == probes[<<1, "img2">>]
       IN  /\ x.pc = "send" /\ x.cit = NoCff /\ x.err = Nil /\ x.fault = "none"
           /\ detected["img2"] = 1
           /\ "img2" \in DOMAIN cache.images
           /\ x.tools = {Slug("img2", "t1")}
           /\ cache.tools[Slug("img2", "t1")].Citation = NoCff

\* C31: every key of the tool entries of the cache is <image>::<tool-name>,
\* and the entry under it is the spec of that tool of that image with the key
\* as its ID, whatever ReadAllTools and LoadToolSpec calls have run.
C31_KeysAreSlugs ==
    \A k \in DOMAIN cache.tools :
        /\ Len(k) = 3 /\ k[2] = "::"
        /\ k[1] \in imagesWithTags
        /\ k[3] \in DOMAIN ImageSpecFile(k[1])
        /\ cache.tools[k].ID = k
        /\ [cache.tools[k] EXCEPT !.Citation = NoCff]
             = [ImageSpecFile(k[1])[k[3]] EXCEPT !.ID = k]

----------------------------------------------------------------------------
(* Claims on the start of a run *)

Statuses == {"pending", "running", "finished", "errored"}

\* C32: the call that launched an execution reads the row and returns
\* whatever the execution is doing, its answer being the row's status at that
\* moment; the step that ends the call changes no execution and no row, and
\* no execution ever ends with the error of a cancelled context.
C32_DetachedExecution ==
    /\ [](\A q \in ReqIds :
            reqs[q].stage = "read" /\ ~crashed =>
              /\ ENABLED StartRunRead(q)
              /\ LET a == StartRunResult(runs, reqs[q])
                 IN  a.err = Nil /\ ~a.startFailed =>
                       /\ a.run.Status \in Statuses
                       /\ a.run.Status = runs[reqs[q].tool.ID].status)
    /\ [](\A e \in ExecIds : execs[e].ret # ErrCanceled)
    /\ [][\A q \in ReqIds :
            reqs[q].stage = "read" /\ reqs'[q].stage # "read" =>
              execs' = execs /\ runs' = runs /\ crashed' = crashed]_vars

\* the call has returned, and its execution is waiting for the container
C32_Witness ==
    /\ \A q \in ReqIds : reqs[q] = IdleReq
    /\ \E e \in ExecIds :
         /\ execs[e].pc = "wait"
         /\ HasRow(runs, execs[e].tool.ID)
         /\ runs[execs[e].tool.ID].status = "running"

\* C33: an execution whose user is neither the owner of its run nor an
\* administrator changes nothing of the run's row: no step of it applies a
\* transition to running, finished or errored or sets the metadata.
C33_TransitionsNeedOwnership ==
    [][\A e \in ExecIds :
         LET id == execs[e].tool.ID
         IN  /\ execs[e].pc \notin {"idle", "done"}
             /\ execs'[e] # execs[e]
             /\ HasRow(runs, id) /\ ~MayAccess(runs[id], execs[e].user)
             => HasRow(runs', id) /\ runs'[id] = runs[id]]_vars

\* Execution e is launched in this step
Launches(e) == execs[e].pc \in {"idle", "done"} /\ execs'[e].pc = "client"

\* C34: no two executions of one run are under way together, and an execution
\* is launched only on a run that is pending: a call of StartRun on a run that
\* is running, finished or errored launches none.
C34_OneExecutionPerRun ==
    /\ [](\A e, d \in ExecIds :
            e # d /\ execs[e].pc \notin {"idle", "done"} /\ execs[d].pc \notin {"idle", "done"}
            => execs[e].tool.ID # execs[d].tool.ID)
    /\ [][\A e \in ExecIds :
            Launches(e) /\ HasRow(runs', execs'[e].tool.ID)
            => runs'[execs'[e].tool.ID].status = "pending"]_vars

----------------------------------------------------------------------------
(* Claims on the deletion of a run *)

\* The run of execution e has been deleted while the execution is under way
DeletedUnder(e) ==
    /\ execs[e].pc \notin {"idle", "done"}
    /\ ~HasRow(runs, execs[e].tool.ID)
    /\ "DeleteRun" \in applied[execs[e].tool.ID]

Below(files, dir) == {path \in files : IsPrefix(dir, path)}

\* C35: after the run of an execution under way was deleted, no step of the
\* execution ends the process, and no step writes below the mount directory
\* of the run.
C35_DeleteDuringExecution ==
    [][\A e \in ExecIds :
         DeletedUnder(e) /\ execs'[e] # execs[e] =>
            /\ ~crashed'
            /\ Below(fs', <<"mounts", ToString(execs[e].tool.ID)>>)
                 \subseteq Below(fs, <<"mounts", ToString(execs[e].tool.ID)>>)]_vars

----------------------------------------------------------------------------
(* Claims on what RunTool returns *)

\* C36: an execution returns nil only from its final transition after an
\* exit with code 0, the row then being finished; a row is made finished by
\* no other step; and an execution that returns an error has applied an
\* errored transition in that step, the row then being errored.
C36_NilOnlyOnCleanExit ==
    [][\A e \in ExecIds :
         LET id == execs[e].tool.ID
         IN  /\ Returns(e) /\ execs'[e].ret = Nil =>
                  /\ execs[e].pc = "final" /\ execs[e].exitCode = 0
                  /\ HasRow(runs', id) /\ runs'[id].status = "finished"
             /\ Returns(e) /\ execs'[e].ret # Nil =>
                  /\ execs'[e].terminals = execs[e].terminals + 1
                  /\ HasRow(runs', id) /\ runs'[id].status = "errored"
             /\ /\ execs'[e] # execs[e] /\ execs[e].pc \notin {"idle", "done"}
                /\ HasRow(runs', id) /\ runs'[id].status = "finished"
                /\ HasRow(runs, id) /\ runs[id].status # "finished"
                => execs[e].pc = "final" /\ execs[e].exitCode = 0]_vars

----------------------------------------------------------------------------
(* Claims on the fields of a run record *)

\* C37: on every row, has_errored is set exactly when the status is errored,
\* error_message is set only when the status is errored, and finished_at is
\* set exactly when the status is finished or errored.
C37_FieldsFollowStatus ==
    \A id \in DOMAIN runs :
        /\ runs[id].has_errored <=> runs[id].status = "errored"
        /\ runs[id].error_message.Valid => runs[id].status = "errored"
        /\ runs[id].finished_at # Null <=> runs[id].status \in Terminal

----------------------------------------------------------------------------
(* Claims on the goroutines of a discovery pass *)

TaggedImages == {i \in Summary : Len(i.RepoTags) > 0}

Started(p) == {tag \in imagesWithTags : probes[<<p, tag>>].pc # "none"}
Ended(p) == {tag \in imagesWithTags : probes[<<p, tag>>].pc = "done"}

\* The results pass p has taken from the channel
Received(p) ==
    passes[p].got + (IF passes[p].pc = "done" /\ passes[p].ret = "error"
                        /\ passes[p].err # ErrCanceled /\ Started(p) # {}
                     THEN 1 ELSE 0)

\* C38: a pass that started its goroutines started one for each image with a
\* tag and no other; a goroutine ends only by a step that puts one result of
\* its own into the channel, and nothing else puts results there, so the
\* results sent are as many as the goroutines ended and a collecting pass
\* whose goroutines have all ended has a result to take; and a goroutine at
\* its send can always send, also after the pass has returned.
C38_OneResultPerProbe ==
    /\ [](\A p \in PassIds :
            /\ Started(p) # {} =>
                 /\ \A i \in TaggedImages : Head(i.RepoTags) \in Started(p)
                 /\ Cardinality(Started(p)) = Cardinality(TaggedImages)
            /\ Received(p) + Cardinality(passes[p].buf) = Cardinality(Ended(p))
            /\ passes[p].pc = "collect" /\ Ended(p) = imagesWithTags
                 => passes[p].buf # {}
            /\ \A tag \in imagesWithTags :
                 probes[<<p, tag>>].pc = "send" /\ ~crashed
                   => Cardinality(passes[p].buf) < Cardinality(imagesWithTags))
    /\ [][\A p \in PassIds :
            /\ \A tag \in imagesWithTags :
                 /\ probes[<<p, tag>>].pc # "done" /\ probes'[<<p, tag>>].pc = "done" =>
                      /\ probes[<<p, tag>>].pc = "send"
                      /\ \E res \in passes'[p].buf \ passes[p].buf :
                           /\ res.tag = tag
                           /\ passes'[p].buf = passes[p].buf \cup {res}
                 /\ probes[<<p, tag>>].pc = "done" => probes'[<<p, tag>>].pc = "done"
            /\ passes'[p].buf \ passes[p].buf # {} =>
                 \E tag \in imagesWithTags :
                    probes[<<p, tag>>].pc = "send" /\ probes'[<<p, tag>>].pc = "done"]_vars

\* a pass has returned the error of one goroutine, and the other goroutine
\* has sent its result after that: the result lies in the channel
C38_Witness ==
    \E p \in PassIds :
        /\ passes[p].pc = "done" /\ passes[p].err = DockerErr("client")
        /\ Started(p) = imagesWithTags /\ Ended(p) = imagesWithTags
        /\ Cardinality(passes[p].buf) = 1

----------------------------------------------------------------------------
(* CreateAndStartRun beside the deletion of the run it has created *)

StartNext ==
    \/ \E e \in ExecIds :
         \/ RT_NewClient(e)
         \/ RT_ResolveMode(e)
         \/ RT_Create(e)
         \/ RT_Start(e)
         \/ RT_Wait(e)
         \/ RT_Logs(e)
         \/ RT_Copy(e)
         \/ RT_Files(e)
         \/ RT_Final(e)
    \/ \E user \in Callers, payload \in Payloads : CreateAndStartRun(user, payload)
    \/ \E user \in Callers, id \in RunIds : RunMiddlewareDeleteRun(user, id)
    \/ \E q \in ReqIds : StartRunRead(q)
    \/ ReadAllTools

StartSpec == Init /\ [][StartNext]_vars

----------------------------------------------------------------------------
(* Claims on the responses of the REST handlers *)

\* C40: a DeleteRun handler that has answered the error of os.RemoveAll does
\* nothing after it: the step in which the removal fails leaves the row of
\* the run and the files in place.
C40_NothingAfterErrorResponse ==
    [][\A q \in ReqIds :
         LET id == reqs[q].tool.ID
         IN  /\ DeleteRun(q)
             /\ "RemoveAllErr" \in applied'[id] /\ "RemoveAllErr" \notin applied[id]
             => /\ fs' = fs
                /\ HasRow(runs, id) => HasRow(runs', id) /\ runs'[id] = runs[id]]_vars

====
